---- MODULE Spec2Model ----
(***************************************************************************)
(* Streaming and single-shot voice-cloning sessions of the voice-cloning   *)
(* server: the WebSocket handlers of app/websocket_server.py, the          *)
(* streaming generator of app/voice_cloner_realtime_fixed.py and the       *)
(* single-shot cloners, with the transient reference file, the synthesizer *)
(* calls and the messages sent to clients.                                 *)
(*                                                                         *)
(* Text is a sequence of one-character strings over a small alphabet that  *)
(* keeps one representative per character class the regular expressions   *)
(* of the source distinguish:                                              *)
(*   "a"  a Latin letter            [a-zA-Z]                               *)
(*   "H"  a Devanagari letter       in U+0905..U+0939 (the range written   *)
(*                                  as the first..last letter in the code) *)
(*   "M"  a Devanagari sign         in U+0900..U+097F but outside it       *)
(*   "D"  the danda                 U+0964 (inside U+0900..U+097F)         *)
(*   " "  white space,  "."  "!"  "?"  themselves                          *)
(***************************************************************************)
EXTENDS Integers, Sequences, FiniteSets, TLC

\* ------------------------------------------------------------------------
\* Character classes
\* ------------------------------------------------------------------------
LatinLetters == {"a"}

HindiLetters == {"H"}

DevanagariBlock == {"H", "M", "D"}

SentenceSplitters == {"!", "D", "?"}

SentenceEnders == {".", "!", "?", "D"}

\* ------------------------------------------------------------------------
\* String helpers (str.strip, str.split, re.sub on the classes above)
\* ------------------------------------------------------------------------
RECURSIVE LStrip(_)
LStrip(t) == IF t # <<>> /\ Head(t) = " " THEN LStrip(Tail(t)) ELSE t

RECURSIVE RStrip(_)
RStrip(t) ==
  IF t # <<>> /\ t[Len(t)] = " " THEN RStrip(SubSeq(t, 1, Len(t) - 1)) ELSE t

Strip(t) == RStrip(LStrip(t))

\* re.sub(r'\s+', ' ', t): every run of white space becomes one space
RECURSIVE CollapseSpaces(_)
CollapseSpaces(t) ==
  IF t = <<>> THEN <<>>
  ELSE IF Head(t) = " " /\ Len(t) > 1 /\ t[2] = " " THEN CollapseSpaces(Tail(t))
  ELSE <<Head(t)>> \o CollapseSpaces(Tail(t))

\* re.sub(r'[..]+', '', t) for a character class S
RECURSIVE RemoveChars(_, _)
RemoveChars(t, S) ==
  IF t = <<>> THEN <<>>
  ELSE IF Head(t) \in S THEN RemoveChars(Tail(t), S)
  ELSE <<Head(t)>> \o RemoveChars(Tail(t), S)

\* re.sub(r'([A])([B])', r'\1 \2', t): a space between a character of A
\* directly followed by a character of B
RECURSIVE InsertSpaceBetween(_, _, _)
InsertSpaceBetween(t, A, B) ==
  IF Len(t) < 2 THEN t
  ELSE IF t[1] \in A /\ t[2] \in B
       THEN <<t[1], " ">> \o InsertSpaceBetween(Tail(t), A, B)
       ELSE <<t[1]>> \o InsertSpaceBetween(Tail(t), A, B)

\* the pieces of t between maximal runs of characters of S (re.split(r'[S]+'),
\* str.split() for S = white space keeps no empty piece)
RECURSIVE SplitOn(_, _, _)
SplitOn(t, S, cur) ==
  IF t = <<>> THEN <<cur>>
  ELSE IF Head(t) \in S
       THEN IF Len(t) > 1 /\ t[2] \in S
            THEN SplitOn(Tail(t), S, cur)
            ELSE <<cur>> \o SplitOn(Tail(t), S, <<>>)
       ELSE SplitOn(Tail(t), S, Append(cur, Head(t)))

RECURSIVE DropEmpty(_)
DropEmpty(ps) ==
  IF ps = <<>> THEN <<>>
  ELSE IF Head(ps) = <<>> THEN DropEmpty(Tail(ps))
  ELSE <<Head(ps)>> \o DropEmpty(Tail(ps))

Words(t) == DropEmpty(SplitOn(t, {" "}, <<>>))

Contains(w, S) == \E k \in 1..Len(w) : w[k] \in S

\* ------------------------------------------------------------------------
\* FixedRealTimeHinglishVoiceCloner: text functions
\* ------------------------------------------------------------------------
WordTag(w) ==
  IF Contains(w, DevanagariBlock) THEN "hi"
  ELSE IF Contains(w, LatinLetters) THEN "en"
  ELSE "unknown"

detect_text_language_segments(t) ==
  [k \in 1..Len(Words(t)) |-> <<Words(t)[k], WordTag(Words(t)[k])>>]

HindiCount(t) ==
  Cardinality({k \in 1..Len(Words(t)) : detect_text_language_segments(t)[k][2] = "hi"})

\* hindi_ratio = HindiCount / number of segments (0 if there is none); the
\* comparisons against 0.1, 0.3 and 0.9 are done on the cross-multiplied
\* integers
IsMixed(t) ==
  /\ Len(Words(t)) > 0
  /\ 10 * HindiCount(t) > Len(Words(t))
  /\ 10 * HindiCount(t) < 9 * Len(Words(t))

PrimaryLanguage(t) ==
  IF Len(Words(t)) > 0 /\ 10 * HindiCount(t) > 3 * Len(Words(t)) THEN "hi" ELSE "en"

optimize_text_for_voice_cloning(text) ==
  LET t1 == CollapseSpaces(Strip(text))
  IN IF IsMixed(t1)
     THEN LET t2 == RemoveChars(t1, SentenceSplitters)
              t3 == InsertSpaceBetween(t2, HindiLetters, LatinLetters)
              t4 == InsertSpaceBetween(t3, LatinLetters, HindiLetters)
          IN CollapseSpaces(Strip(t4))
     ELSE t1

RECURSIVE StripAll(_)
StripAll(ps) ==
  IF ps = <<>> THEN <<>> ELSE <<Strip(Head(ps))>> \o StripAll(Tail(ps))

_split_text_into_chunks(text) ==
  DropEmpty(StripAll(SplitOn(text, SentenceEnders, <<>>)))


\* ------------------------------------------------------------------------
\* MultilingualVoiceCloner and its subclasses: text functions
\* ------------------------------------------------------------------------
\* further character classes: "," stands for , ; :   "q" for a quotation
\* mark   "-" for a dash
ClauseMarks == {","}

QuoteMarks == {"q"}

Dashes == {"-"}

\* optimize_text_for_voice_cloning returns text.strip() up to this length
ShortTextLimit == 20

\* detect_text_language_segments of MultilingualVoiceCloner: a word with
\* neither script is tagged "hi"
ml_WordTag(w) ==
  IF Contains(w, DevanagariBlock) THEN "hi"
  ELSE IF Contains(w, LatinLetters) THEN "en"
  ELSE "hi"

ml_detect_text_language_segments(t) ==
  [k \in 1..Len(Words(t)) |-> <<Words(t)[k], ml_WordTag(Words(t)[k])>>]

ml_HindiCount(t) ==
  Cardinality({k \in 1..Len(Words(t)) : ml_detect_text_language_segments(t)[k][2] = "hi"})

\* re.sub(r'[S]', ' ', t): every character of S becomes a space
RECURSIVE ReplaceBySpace(_, _)
ReplaceBySpace(t, S) ==
  IF t = <<>> THEN <<>>
  ELSE <<IF Head(t) \in S THEN " " ELSE Head(t)>> \o ReplaceBySpace(Tail(t), S)

\* re.sub(r'\.(?=\s)', ' ', t): a period directly before white space
RECURSIVE PeriodBeforeSpace(_)
PeriodBeforeSpace(t) ==
  IF t = <<>> THEN <<>>
  ELSE IF Head(t) = "." /\ Len(t) > 1 /\ t[2] = " "
       THEN <<" ">> \o PeriodBeforeSpace(Tail(t))
       ELSE <<Head(t)>> \o PeriodBeforeSpace(Tail(t))

\* re.sub(r'\.$', '', t): the period that ends the text
FinalPeriod(t) ==
  IF t # <<>> /\ t[Len(t)] = "." THEN SubSeq(t, 1, Len(t) - 1) ELSE t

\* re.sub(r'[c]{2,}', 'c', t): a run of the character c becomes one c
RECURSIVE CollapseRuns(_, _)
CollapseRuns(t, c) ==
  IF t = <<>> THEN <<>>
  ELSE IF Head(t) = c /\ Len(t) > 1 /\ t[2] = c THEN CollapseRuns(Tail(t), c)
  ELSE <<Head(t)>> \o CollapseRuns(Tail(t), c)

\* the number of spaces t starts with
RECURSIVE LeadingSpaces(_)
LeadingSpaces(t) ==
  IF t # <<>> /\ Head(t) = " " THEN 1 + LeadingSpaces(Tail(t)) ELSE 0

\* re.sub(r'([A])(\s{2,})([B])', r'\1 \3', t): two or more spaces between a
\* character of A and a character of B become one
RECURSIVE CollapseGapBetween(_, _, _)
CollapseGapBetween(t, A, B) ==
  IF t = <<>> THEN <<>>
  ELSE LET n == LeadingSpaces(Tail(t))
       IN IF /\ Head(t) \in A /\ n >= 2 /\ Len(t) > n + 1 /\ t[n + 2] \in B
          THEN <<Head(t), " ">> \o
               CollapseGapBetween(SubSeq(t, n + 2, Len(t)), A, B)
          ELSE <<Head(t)>> \o CollapseGapBetween(Tail(t), A, B)

\* re.sub(r'([S])\s*([^\s])', r'\1 \2', t): exactly one space between a
\* character of S and the next character that is not white space
RECURSIVE OneSpaceAfter(_, _)
OneSpaceAfter(t, S) ==
  IF t = <<>> THEN <<>>
  ELSE LET n == LeadingSpaces(Tail(t))
       IN IF Head(t) \in S /\ Len(t) > n + 1
          THEN <<Head(t), " ", t[n + 2]>> \o
               OneSpaceAfter(SubSeq(t, n + 3, Len(t)), S)
          ELSE <<Head(t)>> \o OneSpaceAfter(Tail(t), S)

\* re.sub(r'([S])([^\s])', r'\1 \2', t): a space between a character of S
\* and a character directly after it that is not white space
RECURSIVE SpaceAfter(_, _)
SpaceAfter(t, S) ==
  IF Len(t) < 2 THEN t
  ELSE IF t[1] \in S /\ t[2] # " "
       THEN <<t[1], " ", t[2]>> \o SpaceAfter(SubSeq(t, 3, Len(t)), S)
       ELSE <<t[1]>> \o SpaceAfter(Tail(t), S)

\* 0.2 < hindi_ratio < 0.8 on the cross-multiplied integers
ml_IsHinglish(t) ==
  /\ Len(Words(t)) > 0
  /\ 5 * ml_HindiCount(t) > Len(Words(t))
  /\ 5 * ml_HindiCount(t) < 4 * Len(Words(t))

\* MultilingualVoiceCloner.optimize_text_for_voice_cloning
ml_optimize_text_for_voice_cloning(text) ==
  IF Len(text) <= ShortTextLimit THEN Strip(text)
  ELSE LET t1 == CollapseSpaces(Strip(text))
           t2 == ReplaceBySpace(t1, SentenceSplitters)
           t3 == ReplaceBySpace(t2, ClauseMarks)
           t4 == FinalPeriod(PeriodBeforeSpace(t3))
           t5 == ReplaceBySpace(RemoveChars(t4, QuoteMarks), Dashes)
           t6 == IF ml_IsHinglish(t1)
                 THEN CollapseGapBetween(
                        CollapseGapBetween(
                          CollapseRuns(CollapseRuns(t5, ","), "."),
                          LatinLetters, HindiLetters),
                        HindiLetters, LatinLetters)
                 ELSE OneSpaceAfter(CollapseRuns(CollapseRuns(t5, "D"), "."),
                                    {"D", ".", "!", "?"})
           t7 == SpaceAfter(t6, {",", "."})
       IN CollapseSpaces(t7)


\* 0.1 < hindi_ratio < 0.9 with the segmenter the subclasses inherit
ml_IsMixed(t) ==
  /\ Len(Words(t)) > 0
  /\ 10 * ml_HindiCount(t) > Len(Words(t))
  /\ 10 * ml_HindiCount(t) < 9 * Len(Words(t))

\* WebSocketFixedHinglishCloner.optimize_text_for_voice_cloning (and, with a
\* final white space cleanup that changes nothing, OptimizedHinglishCloner's)
wf_optimize_text_for_voice_cloning(text) ==
  LET t1 == CollapseSpaces(Strip(text))
  IN IF ml_IsMixed(t1)
     THEN LET t2 == RemoveChars(t1, SentenceSplitters)
              t3 == InsertSpaceBetween(t2, HindiLetters, LatinLetters)
              t4 == InsertSpaceBetween(t3, LatinLetters, HindiLetters)
          IN CollapseSpaces(Strip(t4))
     ELSE t1

\* re.sub(r'[S]+', '.', t): every run of characters of S becomes one period
RECURSIVE RunsToPeriod(_, _)
RunsToPeriod(t, S) ==
  IF t = <<>> THEN <<>>
  ELSE IF Head(t) \in S
       THEN IF Len(t) > 1 /\ t[2] \in S
            THEN RunsToPeriod(Tail(t), S)
            ELSE <<".">> \o RunsToPeriod(Tail(t), S)
       ELSE <<Head(t)>> \o RunsToPeriod(Tail(t), S)

\* FixedHinglishCloner.optimize_text_for_voice_cloning
fh_optimize_text_for_voice_cloning(text) ==
  LET t1 == CollapseSpaces(Strip(text))
      t2 == RunsToPeriod(t1, {"D"})
      t3 == RunsToPeriod(t2, {"!", "?"})
  IN CollapseRuns(t3, ".")

\* whether optimize_text_for_voice_cloning of the cloner takes its branch for
\* mixed content on a text (MultilingualVoiceCloner returns before the test
\* for a short text)
MixedBranch(cloner, text) ==
  LET t1 == CollapseSpaces(Strip(text))
  IN CASE cloner = "multilingual" -> Len(text) > ShortTextLimit /\ ml_IsHinglish(t1)
       [] cloner = "realtime_fixed" -> IsMixed(t1)
       [] cloner \in {"websocket_fixed", "optimized"} -> ml_IsMixed(t1)
       [] OTHER -> FALSE

\* the text a cloner hands to the synthesizer for a request text
CanonicalText(cloner, text) ==
  CASE cloner = "realtime_fixed" -> optimize_text_for_voice_cloning(text)
    [] cloner \in {"websocket_fixed", "optimized"} ->
         wf_optimize_text_for_voice_cloning(text)
    [] cloner = "multilingual" -> ml_optimize_text_for_voice_cloning(text)
    [] cloner = "fixed_hinglish" -> fh_optimize_text_for_voice_cloning(text)
    [] OTHER -> text

\* the language a cloner hands to the synthesizer: "hi" if hindi_ratio of the
\* request text is above 0.3, else "en"; VoiceClonerSimple always says "hi"
\* self.detect_text_language_segments(text) of the cloner; VoiceClonerSimple
\* has no segmenter
Segments(cloner, text) ==
  CASE cloner = "realtime_fixed" -> detect_text_language_segments(text)
    [] cloner = "simple" -> <<>>
    [] OTHER -> ml_detect_text_language_segments(text)

LanguageArg(cloner, text) ==
  CASE cloner = "realtime_fixed" -> PrimaryLanguage(text)
    [] cloner = "simple" -> "hi"
    [] OTHER -> IF Len(Words(text)) > 0 /\ 10 * ml_HindiCount(text) > 3 * Len(Words(text))
                THEN "hi" ELSE "en"


\* ------------------------------------------------------------------------
\* Waveforms and the audio functions of the cloners
\* ------------------------------------------------------------------------
\* A waveform is described by what the cleanup code looks at: len, its number
\* of samples; core, the number of samples librosa.effects.trim keeps of it;
\* kind, "finite" when every sample is finite, "nan" when some sample is NaN,
\* "inf" when some sample is infinite and none is NaN; peak, for a finite
\* waveform, max |sample| in thousandths.
Wave(len, core, kind, peak) == [len |-> len, core |-> core, kind |-> kind, peak |-> peak]

\* one second of speech at sample_rate 22050
NormalWave == Wave(22050, 20000, "finite", 600)

\* one second whose only frame above the trim threshold is the last, partial one
ClickWave == Wave(22050, 34, "finite", 600)

\* fewer than 100 samples
ShortWave == Wave(50, 50, "finite", 600)

\* all samples zero
SilentWave == Wave(22050, 22050, "finite", 0)

NanWave == Wave(22050, 22050, "nan", 0)

InfWave == Wave(22050, 22050, "inf", 0)

EmptyWave == Wave(0, 0, "finite", 0)

\* in place of a waveform: the synthesizer call raised
SynthRaised == Wave(0, 0, "raised", 0)

\* in place of a waveform: the synthesizer call raised TypeError or
\* AttributeError
SynthTypeError == Wave(0, 0, "type_error", 0)

\* librosa either rejects a buffer that is not finite everywhere
\* (ParameterError) or computes on it, depending on its version
TrimLibraries == {"strict", "lenient"}

Cleaned(audio, raised) == [audio |-> audio, raised |-> raised, failed |-> FALSE]

\* np.max(np.abs(audio)) > 0: a comparison with NaN is False, infinity is > 0
PeakPositive(w) ==
  \/ w.kind = "finite" /\ w.peak > 0
  \/ w.kind = "inf"

\* audio / np.max(np.abs(audio)) * target: 0 / 0 and inf / inf are NaN, with
\* a RuntimeWarning and no exception
ScaleToPeak(w, target) ==
  IF w.kind = "finite" /\ w.peak > 0
  THEN [w EXCEPT !.peak = target]
  ELSE [w EXCEPT !.kind = "nan", !.peak = 0]

\* if np.max(np.abs(audio)) > 0: audio = audio / np.max(np.abs(audio)) * target
GuardedScale(w, target) == IF PeakPositive(w) THEN ScaleToPeak(w, target) ELSE w

\* audio - np.mean(audio): the mean of a waveform with a NaN or an infinite
\* sample is NaN or infinite, and inf - inf is NaN
RemoveDC(w) ==
  IF w.kind = "finite" THEN w ELSE [w EXCEPT !.kind = "nan", !.peak = 0]

\* librosa.effects.trim(audio, top_db)[0]
Trim(w, lib) ==
  CASE w.kind = "finite" -> Cleaned([w EXCEPT !.len = w.core], FALSE)
    [] lib = "strict" -> Cleaned(w, TRUE)
    [] OTHER -> Cleaned(w, FALSE)

\* FixedRealTimeHinglishVoiceCloner._minimal_audio_cleanup; the fade belongs
\* to the block of the peak test, and with fewer than 100 samples
\* fade_samples is 0 and audio[-0:] *= fade_out raises ValueError
rt_minimal_audio_cleanup(audio, lib) ==
  IF audio.len = 0 THEN Cleaned(audio, FALSE)
  ELSE LET t == Trim(audio, lib)
           scaled == ScaleToPeak(t.audio, 950)
       IN CASE t.raised -> Cleaned(audio, TRUE)
            [] ~PeakPositive(t.audio) -> Cleaned(t.audio, FALSE)
            [] scaled.len \div 100 = 0 -> Cleaned(scaled, TRUE)
            [] OTHER -> Cleaned(scaled, FALSE)

\* WebSocketFixedHinglishCloner._minimal_audio_cleanup: the fade runs for
\* more than 1000 samples only
wf_minimal_audio_cleanup(audio, lib) ==
  IF audio.len = 0 THEN Cleaned(audio, FALSE)
  ELSE LET t == Trim(audio, lib)
       IN IF t.raised THEN Cleaned(audio, TRUE)
          ELSE Cleaned(GuardedScale(t.audio, 950), FALSE)

\* FixedHinglishCloner._minimal_audio_cleanup
fh_minimal_audio_cleanup(audio, lib) ==
  LET dc == RemoveDC(audio)
      t == Trim(dc, lib)
  IN CASE audio.len = 0 -> Cleaned(audio, TRUE)
       [] t.raised -> Cleaned(dc, TRUE)
       [] OTHER -> Cleaned(GuardedScale(t.audio, 800), FALSE)

\* MultilingualVoiceCloner._clean_audio_artifacts: filtfilt raises for 9
\* samples or fewer, np.max(energy) raises when there is no 20 ms window
\* (441 samples or fewer); the except block returns the audio as it is then
ml_clean_audio_artifacts(audio) ==
  LET dc == RemoveDC(audio)
  IN IF dc.len <= 441 THEN Cleaned(dc, TRUE) ELSE Cleaned(dc, FALSE)

\* MultilingualVoiceCloner._enhance_audio_quality: the level is set from the
\* reference's rms_energy, then np.clip(audio, -1.0, 1.0), which keeps NaN
ml_enhance_audio_quality(audio) ==
  IF audio.kind = "finite" /\ audio.peak > 0
  THEN [audio EXCEPT !.peak = 1000]
  ELSE IF audio.kind = "finite" THEN audio
  ELSE [audio EXCEPT !.kind = "nan", !.peak = 0]

\* MultilingualVoiceCloner._minimal_final_cleanup; its except block returns
\* the audio normalised under the same peak test
ml_minimal_final_cleanup(audio, lib) ==
  IF audio.len = 0 THEN Cleaned(audio, FALSE)
  ELSE LET scaled == GuardedScale(RemoveDC(audio), 950)
           t == Trim(scaled, lib)
       IN IF t.raised THEN Cleaned(GuardedScale(scaled, 950), TRUE)
          ELSE Cleaned(t.audio, FALSE)

\* len(optimized_text) < 100 and enhance_quality (its default, True)
EnhanceLimit == 100

\* clone_voice_multilingual after the synthesizer call: _clean_audio_artifacts,
\* _enhance_audio_quality for a short text, _minimal_final_cleanup
ml_postprocess(audio, lib, textLen) ==
  LET c1 == ml_clean_audio_artifacts(audio)
      c2 == IF textLen < EnhanceLimit THEN ml_enhance_audio_quality(c1.audio)
            ELSE c1.audio
      c3 == ml_minimal_final_cleanup(c2, lib)
  IN Cleaned(c3.audio, c1.raised \/ c3.raised)

\* OptimizedHinglishCloner.clone_voice_multilingual after the synthesizer
\* call, outside any try of its own: np.max of an empty array raises
oh_postprocess(audio) ==
  IF audio.len = 0
  THEN [audio |-> audio, raised |-> TRUE, failed |-> TRUE]
  ELSE Cleaned(GuardedScale(RemoveDC(audio), 800), FALSE)

\* what the cloner does to the waveform the synthesizer returned
Postprocess(cloner, audio, lib, textLen) ==
  CASE cloner = "realtime_fixed" -> rt_minimal_audio_cleanup(audio, lib)
    [] cloner = "websocket_fixed" -> wf_minimal_audio_cleanup(audio, lib)
    [] cloner = "multilingual" -> ml_postprocess(audio, lib, textLen)
    [] cloner = "fixed_hinglish" -> fh_minimal_audio_cleanup(audio, lib)
    [] cloner = "optimized" -> oh_postprocess(audio)
    [] OTHER -> Cleaned(audio, FALSE)

\* OptimizedHinglishCloner._enhance_reference_audio: the division by the
\* peak is not guarded; the filters keep NaN
_enhance_reference_audio(audio) ==
  IF audio.len = 0 THEN audio ELSE ScaleToPeak(audio, 800)

\* the reference waveform (of at least one sample) the cloner writes to its
\* temporary speaker file: normalised under a peak test by three cloners,
\* enhanced by one, written as it is by the others
PrepareReference(cloner, audio) ==
  CASE cloner \in {"realtime_fixed", "websocket_fixed", "fixed_hinglish"} ->
         GuardedScale(audio, 800)
    [] cloner = "optimized" -> _enhance_reference_audio(audio)
    [] OTHER -> audio


\* ------------------------------------------------------------------------
\* Bounds and inputs
\* ------------------------------------------------------------------------
\* number of requests / generator runs one behaviour contains
MaxSessions == 2

\* number of ping messages clients send in one behaviour
MaxPings == 1

Sessions == 1..MaxSessions

\* number of direct single-shot calls one behaviour contains where the
\* calls are examined one by one
MaxClones == 1

Clients == {"c1", "c2"}

\* the voice_profiles table holds one profile; "ghost" names none
StoredVoices == {"v1"}

VoiceNames == {"v1", "ghost"}

\* the audio_data of the stored profile
StoredReference == NormalWave

Txt_blank == <<" ">>

Txt_one == <<"a", ".">>

Txt_two == <<"a", ".", " ", "H">>

Txt_three == <<"H", ".", " ", "H", "H", ".", " ", "H", "H", "H">>

Txt_four == <<"a", ".", " ", "a", "a", ".", " ", "a", "a", "a", ".", " ", "a", "H">>

\* twenty characters of Latin words, of Devanagari words, of both
PadLatin == <<"a", "a", "a", "a", " ", "a", "a", "a", "a", " ",
              "a", "a", "a", "a", " ", "a", "a", "a", "a", " ">>

PadHindi == <<"H", "H", "M", "H", " ", "H", "H", "M", "H", " ",
              "H", "H", "M", "H", " ", "H", "H", "M", "H", " ">>

PadMixed == <<"a", "a", "a", "a", " ", "H", "H", "M", "H", " ",
              "a", "a", "a", "a", " ", "H", "H", "M", "H", " ">>

\* like "Good morning aap kaise hain?": Latin words and a final question mark
Txt_question == PadLatin \o <<"a", "a", "?">>

\* Latin words and two final periods
Txt_dots == PadLatin \o <<"a", "a", ".", ".">>

\* a period directly followed by a letter
Txt_dotword == PadLatin \o <<"a", ".", "a">>

\* both scripts, a comma, and a final question mark
Txt_mixed == PadMixed \o <<"a", ",", "H", "?">>

\* Devanagari words and a final danda
Txt_hindi == PadHindi \o <<"H", "M", "D">>

\* five words, one of them Devanagari: hindi_ratio is exactly 0.2
Txt_fifth == PadLatin \o <<"H", "?">>

\* five words, four of them Devanagari: hindi_ratio is exactly 0.8
Txt_four_fifths == PadHindi \o <<"a", "?">>

\* a short text with two spaces between its words
Txt_gap == <<"a", " ", " ", "a">>

\* two sentences in two scripts, separated by an exclamation mark
Txt_bang == <<"a", "!", " ", "H">>

\* a token without a letter of either script between two words
Txt_token == <<"a", " ", ".", " ", "H">>

\* test_realtime_integration stops consuming at this chunk count
TestChunkLimit == 3

\* ------------------------------------------------------------------------
\* The cloner classes
\* ------------------------------------------------------------------------
ServerCloners == {"websocket_fixed", "multilingual", "simple"}

ScriptCloners == {"fixed_hinglish", "optimized"}

\* the single-shot cloners that are also called without the server
DirectCloners == ScriptCloners \cup {"websocket_fixed", "multilingual"}

\* the event loop (process) a session runs on
Proc(kind) ==
  CASE kind \in {"realtime_ws", "single_ws"} -> "server"
    [] kind = "realtime_direct" -> "app"
    [] OTHER -> "script"

Procs == {"server", "app", "script"}

\* the path of the temporary speaker file; hash(text) is the same for the
\* same text inside one process
TempSpeakerPath(cloner, proc, text) ==
  CASE cloner = "realtime_fixed" -> <<"temp_speaker_realtime", proc, text>>
    [] cloner = "websocket_fixed" -> <<"temp_speaker_websocket.wav">>
    [] cloner = "multilingual" -> <<"temp_speaker_multilingual.wav">>
    [] cloner = "simple" -> <<"temp_speaker.wav">>
    [] cloner = "fixed_hinglish" -> <<"temp_speaker_fixed.wav">>
    [] OTHER -> <<"temp_speaker_advanced.wav">>

\* the split_sentences argument of the cloner's synthesizer call: "False",
\* or "default" when the call does not pass it
SplitSentencesArg(cloner) ==
  IF cloner \in {"simple", "fixed_hinglish"} THEN "default" ELSE "False"

\* the cloner removes the speaker file in a finally block around the call
RemovesInFinally(cloner) == cloner # "simple"

\* hindi_ratio is computed with an unguarded division by len(segments)
UnguardedRatio(cloner) == cloner \in {"multilingual", "optimized"}

\* the consumer passes a progress callback: handle_realtime_speech_generation
\* passes progress_callback(progress, message_text), the generator calls it
\* with one argument
HasCallback(kind) == kind = "realtime_ws"

CallbackArity == 2

CallbackArgsPassed == 1

\* a loop that would not advance to the next chunk
SameIndex(i) == i

\* enumerate(text_chunks): the index after i
NextIndex(i) == i + 1

\* a generator that would swallow the failure and go on with the next chunk
SwallowSynthFailure == "sleeping"

\* a cloner that would hand the synthesizer a part of the text
FirstHalf(t) == SubSeq(t, 1, Len(t) \div 2)

\* the text argument of a single-shot synthesizer call: optimized_text, whole
WholeText(t) == t

\* where the generator goes when the synthesizer call raises
AfterSynthFailure == "raised"

\* a cleanup whose exception would propagate to the caller
RaiseCleanupFailure == "raised"

\* what becomes of an exception inside the cleanup functions: their
\* except Exception blocks print a warning and return the audio
AfterCleanupFailure == "absorbed"


\* ------------------------------------------------------------------------
\* State
\* ------------------------------------------------------------------------
\* ------------------------------------------------------------------------
\* Recordings, validation and the rows of the voice_profiles table
\* ------------------------------------------------------------------------
\* an uploaded recording: duration in seconds (trimmed: what librosa's trim
\* at 30 dB keeps), sample rate, RMS level in thousandths, and the per cent
\* of samples below 0.01 and below 0.001 in absolute value
Recording(id, format, readable, duration, trimmed, sr, rms, quiet01, quiet001) ==
  [id |-> id, format |-> format, readable |-> readable, duration |-> duration,
   trimmed |-> trimmed, sr |-> sr, rms |-> rms, quiet01 |-> quiet01,
   quiet001 |-> quiet001]

GoodRecording == Recording("good", "wav", TRUE, 10, 9, 22050, 100, 10, 5)
OtherRecording == Recording("other", "wav", TRUE, 12, 12, 44100, 200, 20, 10)
ShortRecording == Recording("short", "wav", TRUE, 2, 2, 22050, 100, 10, 5)
LongRecording == Recording("long", "wav", TRUE, 90, 90, 22050, 100, 10, 5)
QuietRecording == Recording("quiet", "wav", TRUE, 10, 10, 22050, 5, 60, 20)
SilentRecording == Recording("silent", "wav", TRUE, 10, 3, 22050, 50, 80, 75)
BrokenRecording == Recording("broken", "wav", FALSE, 0, 0, 0, 0, 0, 0)
TextFile == Recording("text", "txt", FALSE, 0, 0, 0, 0, 0, 0)

AudioFormats == {"wav", "mp3", "m4a", "flac", "ogg"}

Validation(is_valid, issues) == [is_valid |-> is_valid, issues |-> issues]

\* MultilingualVoiceCloner.validate_audio_quality, inherited by
\* WebSocketFixedHinglishCloner: valid when no issue was found
ml_validate_audio_quality(rec) ==
  IF ~rec.readable THEN Validation(FALSE, <<"failed">>)
  ELSE LET length == IF rec.duration < 3 THEN <<"too_short">>
                     ELSE IF rec.duration > 60 THEN <<"too_long">> ELSE <<>>
           level == IF rec.rms < 10 THEN <<"level_low">> ELSE <<>>
           silence == IF rec.quiet01 > 70 THEN <<"silence">> ELSE <<>>
           issues == length \o level \o silence
       IN Validation(Len(issues) = 0, issues)

\* VoiceClonerSimple.validate_audio_quality: is_valid starts True and only
\* the branch of a too short recording sets it False
simple_validate_audio_quality(rec) ==
  IF ~rec.readable THEN Validation(FALSE, <<"failed">>)
  ELSE LET length == IF rec.duration < 3 THEN <<"too_short">>
                     ELSE IF rec.duration > 30 THEN <<"too_long">> ELSE <<>>
           rate == IF rec.sr < 16000 THEN <<"low_sample_rate">> ELSE <<>>
           level == IF rec.rms < 10 THEN <<"level_low">>
                    ELSE IF rec.rms > 800 THEN <<"level_high">> ELSE <<>>
           silence == IF rec.quiet001 > 30 THEN <<"silence">> ELSE <<>>
       IN Validation(~(rec.duration < 3), length \o rate \o level \o silence)

validate_audio_quality(cloner, rec) ==
  IF cloner = "simple" THEN simple_validate_audio_quality(rec)
  ELSE ml_validate_audio_quality(rec)

\* preprocess_audio then extract_voice_features: the fingerprint of the
\* recording at the model's sample rate; the multilingual family trims the
\* recording, VoiceClonerSimple repeats or cuts it to 3..30 seconds
extract_voice_features(cloner, rec) ==
  [recording |-> rec.id, sample_rate |-> 22050,
   duration |-> IF cloner = "simple"
                THEN (IF rec.duration < 3 THEN 3
                      ELSE IF rec.duration > 30 THEN 30 ELSE rec.duration)
                ELSE rec.trimmed]

NoFeatures == [recording |-> "-", sample_rate |-> 0, duration |-> 0]

Metadata(description, validation) ==
  [description |-> description, validation |-> validation]

NoProfile ==
  [exists |-> FALSE, voice_features |-> NoFeatures, audio_path |-> <<>>,
   metadata |-> Metadata("", Validation(FALSE, <<>>))]

Profile(features, path, metadata) ==
  [exists |-> TRUE, voice_features |-> features, audio_path |-> path,
   metadata |-> metadata]

\* the row of a voice enrolled before the server started
StoredProfile ==
  Profile([recording |-> "stored", sample_rate |-> 22050, duration |-> 10],
          <<"v1", 0>>, Metadata("d1", Validation(TRUE, <<>>)))

\* the requests handled in one run
MaxRequests == 2

UploadNames == VoiceNames \cup {""}

Descriptions == {"d1", "d2"}

UploadedRecordings ==
  {GoodRecording, OtherRecording, ShortRecording, LongRecording, QuietRecording,
   SilentRecording, BrokenRecording, TextFile}

\* where a request can fail: in the cloner, in the database
UploadOutcomes == {"ok", "preprocess_raises", "extract_raises", "save_fails"}

Response(op, name, rec, status, validation, path) ==
  [op |-> op, name |-> name, recording |-> rec, status |-> status,
   validation |-> validation, path |-> path]

NoValidation == Validation(TRUE, <<>>)

\* VoiceDatabase.save_voice_profile: the row of an existing name is updated,
\* voice_features and audio_path included, else a row is inserted
save_voice_profile(table, name, features, path, metadata) ==
  [table EXCEPT ![name] = Profile(features, path, metadata)]

\* VoiceDatabase.update_voice_metadata: only the metadata column
update_voice_metadata(table, name, metadata) ==
  IF table[name].exists THEN [table EXCEPT ![name].metadata = metadata] ELSE table

\* VoiceDatabase.delete_voice_profile
delete_voice_profile(table, name) == [table EXCEPT ![name] = NoProfile]

\* window_size = int(0.02 * self.sample_rate), and window_size // 2
window_size == 441

hop == window_size \div 2

NoTrim == [len |-> 0, first |-> 0, last |-> 0, start_idx |-> 0, end_idx |-> 0]

\* the WebSocket objects of one run, the messages one of them receives
MaxConnections == 3

MaxDeliveries == 2

Connections == 1..MaxConnections

NoWebSocket == [client_id |-> "-", open |-> FALSE, endpoint |-> "none"]

NoBroadcast ==
  [pc |-> "idle", todo |-> {}, size |-> 0, disconnected_clients |-> {}, reached |-> {}]

\* HinglishChatbot (Gemini) and HinglishOpenAIChatbot
Chatbots == {"gemini", "openai"}

max_history_length == 20

VARIABLES
  sess,               \* per session: the request, the handler's and the generator's locals
  active_connections, \* ConnectionManager.active_connections (its client ids)
  alive,              \* per client: the client's socket is open
  endpoint,           \* per client: where websocket_endpoint stands
  inbox,              \* per client: ping messages sent and not yet received
  pings,              \* ping messages sent so far
  pongs,              \* per client: pong messages delivered
  files,              \* the files on disk: <<path, the session that wrote it>>
  voice_cloner,       \* the global voice_cloner of websocket_server
  loop,               \* per process: the session running on its event loop, 0 if none
  voice_profiles,     \* the voice_profiles table: per voice name, its row
  voices_dir,         \* the files of the upload directory "voices"
  requests,           \* the HTTP requests handled so far, with their responses
  energy_trim,        \* the last energy-based trim: its input and the span it kept
  websockets,         \* per WebSocket object: its client_id, its socket, its endpoint
  registry,           \* ConnectionManager.active_connections with the object
                      \* registered under each client_id (0: none)
  mailbox,            \* per WebSocket object: the messages its client received
  broadcast_run,      \* the call of ConnectionManager.broadcast under way
  messages,           \* the messages table: its rows in insertion order
  chat_log,           \* the chat messages handled, with what each announced
  conversation_history, \* per chatbot: HinglishChatbot.conversation_history
  added               \* per chatbot: the calls of add_to_history so far

\* the sessions, the connections and the files they write
wsVars == <<sess, active_connections, alive, endpoint, inbox, pings, pongs, files,
            voice_cloner, loop>>

\* the voice store
storeVars == <<voice_profiles, voices_dir, requests>>

\* the energy-based trim
trimVars == <<energy_trim>>

\* the connections as objects
mgrVars == <<websockets, registry, mailbox, broadcast_run>>

\* the chatbot and the conversations
chatVars == <<messages, chat_log, conversation_history, added>>

\* the state the speech handlers and the scripts leave alone
appVars == <<storeVars, trimVars, mgrVars, chatVars>>

vars == <<wsVars, appVars>>

NoSession ==
  [kind |-> "none", client |-> "-", voice |-> "", text |-> <<>>, cloner |-> "-",
   pc |-> "idle", profile |-> "unset", chunks |-> <<>>, lang |-> "-", i |-> 0,
   chunk_count |-> 0, delivered |-> <<>>, temp |-> <<>>, calls |-> <<>>,
   events |-> <<>>, fault |-> "none", failed_chunk |-> -1, cancel_at |-> -1,
   outcome |-> "-", ref_in |-> EmptyWave, ref |-> EmptyWave, segments |-> <<>>]

Init ==
  /\ sess = [s \in Sessions |-> NoSession]
  /\ active_connections = {}
  /\ alive = [c \in Clients |-> FALSE]
  /\ endpoint = [c \in Clients |-> "none"]
  /\ inbox = [c \in Clients |-> 0]
  /\ pings = 0
  /\ pongs = [c \in Clients |-> 0]
  /\ files = {}
  /\ voice_cloner = "None"
  /\ loop = [p \in Procs |-> 0]
  /\ voice_profiles = [n \in VoiceNames |->
                         IF n \in StoredVoices THEN StoredProfile ELSE NoProfile]
  /\ voices_dir = {<<"v1", 0>>}
  /\ requests = <<>>
  /\ energy_trim = NoTrim
  /\ websockets = [k \in Connections |-> NoWebSocket]
  /\ registry = [c \in Clients |-> 0]
  /\ mailbox = [k \in Connections |-> 0]
  /\ broadcast_run = NoBroadcast
  /\ messages = <<>>
  /\ chat_log = <<>>
  /\ conversation_history = [b \in Chatbots |-> <<>>]
  /\ added = [b \in Chatbots |-> 0]

\* ------------------------------------------------------------------------
\* Files
\* ------------------------------------------------------------------------
Exists(path) == \E e \in files : e[1] = path

\* the session whose data the file holds
Writer(path) == (CHOOSE e \in files : e[1] = path)[2]

\* sf.write(path, ...) / open(path, 'wb'): creates or overwrites
WriteFile(f, path, s) == {e \in f : e[1] # path} \cup {<<path, s>>}

\* if os.path.exists(path): os.remove(path)
RemoveFile(f, path) == {e \in f : e[1] # path}

\* ------------------------------------------------------------------------
\* ConnectionManager
\* ------------------------------------------------------------------------
\* send_personal_message: the message reaches the client if the client is
\* registered and its socket is open
Delivered(c) == c \in active_connections /\ alive[c]

\* send_personal_message: a failed send unregisters the client
AfterSend(c) ==
  IF c \in active_connections /\ ~alive[c]
  THEN active_connections \ {c}
  ELSE active_connections

Msg(type, chunk_id, total_chunks, keys, c) ==
  [type |-> type, chunk_id |-> chunk_id, total_chunks |-> total_chunks,
   keys |-> keys, sent |-> Delivered(c)]

ErrorMsg(c) == Msg("error", 0, 0, {"type", "message"}, c)

TerminalTypes == {"realtime_complete", "error", "cancelled"}

\* ------------------------------------------------------------------------
\* Scheduling: a session runs when its event loop is free or is its own
\* ------------------------------------------------------------------------
CanRun(s) == loop[Proc(sess[s].kind)] \in {0, s}

Hold(s) == [loop EXCEPT ![Proc(sess[s].kind)] = s]

Release(s) == [loop EXCEPT ![Proc(sess[s].kind)] = 0]

\* sessions are numbered in the order they start
Fresh(s) ==
  /\ sess[s].kind = "none"
  /\ \A r \in Sessions : r < s => sess[r].kind # "none"

Connect(c) ==
  /\ endpoint[c] = "none"
  /\ loop["server"] = 0
  /\ active_connections' = active_connections \cup {c}
  /\ alive' = [alive EXCEPT ![c] = TRUE]
  /\ endpoint' = [endpoint EXCEPT ![c] = "receiving"]
  /\ UNCHANGED appVars
  /\ UNCHANGED <<sess, inbox, pings, pongs, files, voice_cloner, loop>>

Running(s) == sess[s].kind # "none" /\ sess[s].pc \notin {"idle", "done", "closed"}

\* the client closes its socket; recorded for the sessions it has running
ClientDisconnect(c) ==
  /\ alive[c]
  /\ alive' = [alive EXCEPT ![c] = FALSE]
  /\ sess' = [s \in Sessions |->
               IF Running(s) /\ sess[s].client = c /\ sess[s].cancel_at = -1
               THEN [sess[s] EXCEPT !.cancel_at = Len(sess[s].delivered)]
               ELSE sess[s]]
  /\ UNCHANGED appVars
  /\ UNCHANGED <<active_connections, endpoint, inbox, pings, pongs, files,
                 voice_cloner, loop>>

\* websocket_endpoint: receive_text raises WebSocketDisconnect
EndpointDisconnect(c) ==
  /\ endpoint[c] = "receiving"
  /\ ~alive[c]
  /\ inbox[c] = 0
  /\ loop["server"] = 0
  /\ endpoint' = [endpoint EXCEPT ![c] = "closed"]
  /\ active_connections' = active_connections \ {c}
  /\ UNCHANGED appVars
  /\ UNCHANGED <<sess, alive, inbox, pings, pongs, files, voice_cloner, loop>>

ClientPing(c) ==
  /\ alive[c]
  /\ pings < MaxPings
  /\ pings' = pings + 1
  /\ inbox' = [inbox EXCEPT ![c] = @ + 1]
  /\ UNCHANGED appVars
  /\ UNCHANGED <<sess, active_connections, alive, endpoint, pongs, files,
                 voice_cloner, loop>>

\* websocket_endpoint receives {"type": "ping"}; handle_websocket_message
\* answers pong
HandlePing(c) ==
  /\ endpoint[c] = "receiving"
  /\ inbox[c] > 0
  /\ loop["server"] = 0
  /\ inbox' = [inbox EXCEPT ![c] = @ - 1]
  /\ pongs' = [pongs EXCEPT ![c] = IF Delivered(c) THEN @ + 1 ELSE @]
  /\ active_connections' = AfterSend(c)
  /\ UNCHANGED appVars
  /\ UNCHANGED <<sess, alive, endpoint, pings, files, voice_cloner, loop>>


\* ------------------------------------------------------------------------
\* handle_realtime_speech_generation
\* ------------------------------------------------------------------------
Emit(r, m) == [r EXCEPT !.events = Append(@, m)]

\* the generate_speech_realtime message arrives; without voice_name or text
\* the handler answers error and returns, else it announces realtime_started
RealtimeRequest(s, c, v, t) ==
  /\ Fresh(s)
  /\ endpoint[c] = "receiving" /\ alive[c]
  /\ loop["server"] = 0
  /\ LET r0 == [NoSession EXCEPT !.kind = "realtime_ws", !.client = c,
                                 !.voice = v, !.text = t,
                                 !.cloner = "realtime_fixed",
                                 !.ref_in = StoredReference]
     IN IF v = "" \/ t = <<>>
        THEN /\ sess' = [sess EXCEPT ![s] =
                          [Emit(r0, ErrorMsg(c)) EXCEPT !.pc = "done",
                                                        !.outcome = "rejected"]]
             /\ UNCHANGED endpoint
        ELSE /\ sess' = [sess EXCEPT ![s] =
                          [Emit(r0, Msg("realtime_started", 0, 0,
                                        {"type", "message", "progress"}, c))
                             EXCEPT !.pc = "rt_started"]]
             /\ endpoint' = [endpoint EXCEPT ![c] = "handling"]
  /\ active_connections' = AfterSend(c)
  /\ UNCHANGED appVars
  /\ UNCHANGED <<alive, inbox, pings, pongs, files, voice_cloner, loop>>

\* voice_db.get_voice_profile; for a missing profile the handler sends error
\* and goes on (there is no return)
RealtimeLookup(s) ==
  /\ sess[s].kind = "realtime_ws" /\ sess[s].pc = "rt_started"
  /\ CanRun(s)
  /\ LET c == sess[s].client
     IN IF sess[s].voice \in StoredVoices
        THEN /\ sess' = [sess EXCEPT ![s].pc = "rt_looked_up",
                                     ![s].profile = "found"]
             /\ loop' = Hold(s)
             /\ UNCHANGED active_connections
        ELSE /\ sess' = [sess EXCEPT ![s] =
                          [Emit(sess[s], ErrorMsg(c)) EXCEPT !.pc = "rt_looked_up",
                                                            !.profile = "None"]]
             /\ loop' = Release(s)
             /\ active_connections' = AfterSend(c)
  /\ UNCHANGED appVars
  /\ UNCHANGED <<alive, endpoint, inbox, pings, pongs, files, voice_cloner>>

\* the import of the realtime cloner (on ImportError: error and return), then
\* voice_features = voice_profile["voice_features"], which raises TypeError
\* for a profile that is None
RealtimeCreateCloner(s, importOk) ==
  /\ sess[s].kind = "realtime_ws" /\ sess[s].pc = "rt_looked_up"
  /\ CanRun(s)
  /\ LET c == sess[s].client
     IN IF ~importOk
        THEN /\ sess' = [sess EXCEPT ![s] =
                          [Emit(sess[s], ErrorMsg(c)) EXCEPT !.pc = "done",
                                                            !.outcome = "error",
                                                            !.fault = "import"]]
             /\ loop' = Release(s)
             /\ active_connections' = AfterSend(c)
             /\ endpoint' = [endpoint EXCEPT ![c] = "receiving"]
        ELSE /\ sess' = [sess EXCEPT ![s].pc =
                          IF sess[s].profile = "found" THEN "gen_start" ELSE "raised"]
             /\ loop' = Hold(s)
             /\ UNCHANGED <<active_connections, endpoint>>
  /\ UNCHANGED appVars
  /\ UNCHANGED <<alive, inbox, pings, pongs, files, voice_cloner>>

\* test_realtime_integration: iterate clone_voice_realtime(text, features)
\* without a progress callback; ref is voice_features["audio_data"]
DirectStart(s, t, ref) ==
  /\ Fresh(s)
  /\ loop["app"] = 0
  /\ sess' = [sess EXCEPT ![s] =
               [NoSession EXCEPT !.kind = "realtime_direct", !.text = t,
                                 !.cloner = "realtime_fixed", !.pc = "gen_start",
                                 !.ref_in = ref]]
  /\ loop' = [loop EXCEPT !["app"] = s]
  /\ UNCHANGED appVars
  /\ UNCHANGED <<active_connections, alive, endpoint, inbox, pings, pongs, files,
                 voice_cloner>>


\* ------------------------------------------------------------------------
\* FixedRealTimeHinglishVoiceCloner.clone_voice_realtime and its consumers
\* ------------------------------------------------------------------------
StartOutcomes == {"ok", "model_fails", "write_fails", "write_fails_partial"}

\* what the consumer does when the generator (or the handler itself) raises:
\* the handler sends error, the test prints
Fail(r, c) ==
  IF r.kind \in {"realtime_ws", "single_ws"}
  THEN [Emit(r, ErrorMsg(c)) EXCEPT !.pc = "done", !.outcome = "error"]
  ELSE [r EXCEPT !.pc = "done", !.outcome = "error"]

\* the first __anext__: the model is loaded, the text optimized and split,
\* the reference written to the temporary speaker file (before the try)
GenStart(s, o) ==
  /\ sess[s].kind \in {"realtime_ws", "realtime_direct"}
  /\ sess[s].pc = "gen_start"
  /\ CanRun(s)
  /\ LET r == sess[s]
         path == TempSpeakerPath(r.cloner, Proc(r.kind), r.text)
         planned == [r EXCEPT !.chunks =
                        _split_text_into_chunks(optimize_text_for_voice_cloning(r.text)),
                      !.segments = Segments(r.cloner, r.text),
                      !.lang = PrimaryLanguage(r.text),
                      !.temp = path,
                      !.ref = PrepareReference(r.cloner, r.ref_in)]
     IN CASE o = "model_fails" ->
               /\ sess' = [sess EXCEPT ![s] = [r EXCEPT !.pc = "raised", !.fault = "model"]]
               /\ UNCHANGED files
          [] o = "ok" ->
               /\ sess' = [sess EXCEPT ![s] = [planned EXCEPT !.pc = "gen_loop", !.i = 0]]
               /\ files' = WriteFile(files, path, s)
          [] OTHER ->
               /\ sess' = [sess EXCEPT ![s] = [planned EXCEPT !.pc = "raised",
                                                             !.fault = "write"]]
               /\ files' = IF o = "write_fails_partial"
                           THEN WriteFile(files, path, s) ELSE files
  /\ loop' = Hold(s)
  /\ UNCHANGED appVars
  /\ UNCHANGED <<active_connections, alive, endpoint, inbox, pings, pongs, voice_cloner>>

SynthCall(r) ==
  [i |-> r.i, text |-> r.chunks[r.i + 1], speaker_wav |-> r.temp,
   wav_present |-> Exists(r.temp),
   wav_writer |-> IF Exists(r.temp) THEN Writer(r.temp) ELSE 0,
   language |-> r.lang, split_sentences |-> SplitSentencesArg(r.cloner),
   result |-> "pending", audio |-> EmptyWave]

\* the top of the loop over text_chunks: when the chunks are exhausted the
\* finally block removes the speaker file and the consumer reports completion;
\* else the progress callback is awaited (a call with the wrong number of
\* arguments raises TypeError into the finally block) and the synthesizer is
\* called, which blocks the event loop
GenLoop(s) ==
  /\ sess[s].kind \in {"realtime_ws", "realtime_direct"}
  /\ sess[s].pc = "gen_loop"
  /\ CanRun(s)
  /\ LET r == sess[s]
         c == r.client
     IN IF r.i >= Len(r.chunks)
        THEN /\ files' = RemoveFile(files, r.temp)
             /\ loop' = Release(s)
             /\ IF r.kind = "realtime_ws"
                THEN /\ sess' = [sess EXCEPT ![s] =
                                  [Emit(r, Msg("realtime_complete", 0, r.chunk_count,
                                               {"type", "message", "total_chunks",
                                                "voice_name", "text"}, c))
                                     EXCEPT !.pc = "done", !.outcome = "complete"]]
                     /\ active_connections' = AfterSend(c)
                     /\ endpoint' = [endpoint EXCEPT ![c] = "receiving"]
                ELSE /\ sess' = [sess EXCEPT ![s].pc = "done",
                                             ![s].outcome = "complete"]
                     /\ UNCHANGED <<active_connections, endpoint>>
        ELSE IF HasCallback(r.kind) /\ CallbackArgsPassed # CallbackArity
        THEN /\ files' = RemoveFile(files, r.temp)
             /\ sess' = [sess EXCEPT ![s].pc = "raised",
                                     ![s].fault = "callback",
                                     ![s].failed_chunk = r.i]
             /\ loop' = Hold(s)
             /\ UNCHANGED <<active_connections, endpoint>>
        ELSE /\ sess' = [sess EXCEPT ![s].pc = "in_tts",
                                     ![s].calls = Append(@, SynthCall(r))]
             /\ loop' = Hold(s)
             /\ UNCHANGED <<files, active_connections, endpoint>>
  /\ UNCHANGED appVars
  /\ UNCHANGED <<alive, inbox, pings, pongs, voice_cloner>>

SetResult(calls, res) == [calls EXCEPT ![Len(calls)].result = res]

\* the synthesizer returned the waveform w
SetAudio(calls, w) ==
  [calls EXCEPT ![Len(calls)].result = "ok", ![Len(calls)].audio = w]

\* a delivered chunk: its index and text, the consumer's count, the waveform
\* after cleanup, and whether a cleanup stage raised
Chunk(i, text, chunk_id, c) ==
  [i |-> i, text |-> text, chunk_id |-> chunk_id, audio |-> c.audio,
   cleanup_raised |-> c.raised]

\* the synthesizer call of a streaming session returns SynthRaised (it raised) or
\* a waveform. On success the chunk is cleaned (a cleanup that raises is
\* caught inside _minimal_audio_cleanup), yielded and consumed: the handler counts it, writes the chunk
\* file and sends audio_chunk; the test counts it and breaks at its limit.
\* On failure the finally block removes the speaker file and the exception
\* propagates.
StreamTtsReturn(s, res, lib) ==
  /\ sess[s].kind \in {"realtime_ws", "realtime_direct"}
  /\ sess[s].pc = "in_tts"
  /\ res # SynthRaised => sess[s].calls[Len(sess[s].calls)].wav_present
  /\ LET r == sess[s]
         c == r.client
         n == r.chunk_count + 1
         clean == IF res = SynthRaised THEN Cleaned(EmptyWave, FALSE)
                  ELSE Postprocess(r.cloner, res, lib, Len(r.chunks[r.i + 1]))
         got == [r EXCEPT !.calls = SetAudio(@, res),
                          !.chunk_count = n,
                          !.delivered = Append(@, Chunk(r.i, r.chunks[r.i + 1], n, clean))]
     IN IF res = SynthRaised \/ (clean.raised /\ AfterCleanupFailure # "absorbed")
        THEN /\ sess' = [sess EXCEPT ![s] =
                          [r EXCEPT !.calls = IF res = SynthRaised
                                              THEN SetResult(@, "failed")
                                              ELSE SetAudio(@, res),
                                    !.pc = AfterSynthFailure,
                                    !.fault = IF res = SynthRaised THEN "synth"
                                              ELSE "cleanup",
                                    !.failed_chunk = r.i]]
             /\ files' = RemoveFile(files, r.temp)
             /\ loop' = Hold(s)
             /\ UNCHANGED active_connections
        ELSE IF r.kind = "realtime_ws"
        THEN /\ sess' = [sess EXCEPT ![s] =
                          [Emit(got, Msg("audio_chunk", n, 0,
                                         {"type", "chunk_id", "audio_file",
                                          "voice_name", "is_final"}, c))
                             EXCEPT !.pc = "sleeping"]]
             /\ files' = WriteFile(files, <<"temp", "realtime", r.voice, c, n>>, s)
             /\ loop' = Release(s)
             /\ active_connections' = AfterSend(c)
        ELSE /\ sess' = [sess EXCEPT ![s] =
                          [got EXCEPT !.pc = IF n >= TestChunkLimit
                                             THEN "broken" ELSE "sleeping",
                                      !.outcome = IF n >= TestChunkLimit
                                                  THEN "stopped" ELSE "-"]]
             /\ loop' = Release(s)
             /\ UNCHANGED <<files, active_connections>>
  /\ UNCHANGED appVars
  /\ UNCHANGED <<alive, endpoint, inbox, pings, pongs, voice_cloner>>

\* asyncio.sleep(0.02) is over: the loop goes to the next chunk
GenWake(s) ==
  /\ sess[s].pc = "sleeping"
  /\ CanRun(s)
  /\ sess' = [sess EXCEPT ![s].pc = "gen_loop", ![s].i = NextIndex(@)]
  /\ loop' = Hold(s)
  /\ UNCHANGED appVars
  /\ UNCHANGED <<active_connections, alive, endpoint, inbox, pings, pongs, files,
                 voice_cloner>>

\* the consumer left the loop with break: the generator is closed at its
\* yield and its finally block removes the speaker file
GenAclose(s) ==
  /\ sess[s].pc = "broken"
  /\ CanRun(s)
  /\ sess' = [sess EXCEPT ![s].pc = "closed"]
  /\ files' = RemoveFile(files, sess[s].temp)
  /\ UNCHANGED appVars
  /\ UNCHANGED <<active_connections, alive, endpoint, inbox, pings, pongs,
                 voice_cloner, loop>>

\* except Exception: the handlers send error, the scripts print
HandleException(s) ==
  /\ sess[s].pc = "raised"
  /\ CanRun(s)
  /\ LET r == sess[s]
         c == r.client
     IN /\ sess' = [sess EXCEPT ![s] = Fail(r, c)]
        /\ IF r.kind \in {"realtime_ws", "single_ws"}
           THEN /\ active_connections' = AfterSend(c)
                /\ endpoint' = [endpoint EXCEPT ![c] = "receiving"]
           ELSE UNCHANGED <<active_connections, endpoint>>
  /\ loop' = Release(s)
  /\ UNCHANGED appVars
  /\ UNCHANGED <<alive, inbox, pings, pongs, files, voice_cloner>>


\* ------------------------------------------------------------------------
\* handle_speech_generation and the single-shot cloners
\* ------------------------------------------------------------------------
ProgressMsg(c) == Msg("progress", 0, 0, {"type", "message", "progress"}, c)

\* the generate_speech message arrives
SpeechRequest(s, c, v, t) ==
  /\ Fresh(s)
  /\ endpoint[c] = "receiving" /\ alive[c]
  /\ loop["server"] = 0
  /\ LET r0 == [NoSession EXCEPT !.kind = "single_ws", !.client = c,
                                 !.voice = v, !.text = t,
                                 !.ref_in = StoredReference]
     IN IF v = "" \/ t = <<>>
        THEN /\ sess' = [sess EXCEPT ![s] =
                          [Emit(r0, ErrorMsg(c)) EXCEPT !.pc = "done",
                                                        !.outcome = "rejected"]]
             /\ UNCHANGED endpoint
        ELSE /\ sess' = [sess EXCEPT ![s] =
                          [Emit(r0, ProgressMsg(c)) EXCEPT !.pc = "ss_started"]]
             /\ endpoint' = [endpoint EXCEPT ![c] = "handling"]
  /\ active_connections' = AfterSend(c)
  /\ UNCHANGED appVars
  /\ UNCHANGED <<alive, inbox, pings, pongs, files, voice_cloner, loop>>

\* voice_db.get_voice_profile; a missing profile is answered with error and
\* the handler returns
SpeechLookup(s) ==
  /\ sess[s].kind = "single_ws" /\ sess[s].pc = "ss_started"
  /\ CanRun(s)
  /\ LET r == sess[s]
         c == r.client
     IN /\ active_connections' = AfterSend(c)
        /\ IF r.voice \in StoredVoices
           THEN /\ sess' = [sess EXCEPT ![s] =
                             [Emit(r, ProgressMsg(c)) EXCEPT !.pc = "ss_ready",
                                                             !.profile = "found"]]
                /\ UNCHANGED endpoint
           ELSE /\ sess' = [sess EXCEPT ![s] =
                             [Emit(r, ErrorMsg(c)) EXCEPT !.pc = "done",
                                                          !.profile = "None",
                                                          !.outcome = "error"]]
                /\ endpoint' = [endpoint EXCEPT ![c] = "receiving"]
  /\ loop' = Release(s)
  /\ UNCHANGED appVars
  /\ UNCHANGED <<alive, inbox, pings, pongs, files, voice_cloner>>

\* clone_voice / clone_voice_multilingual up to the synthesizer call: the
\* model is loaded, the text canonicalized, the language ratio computed (a division by the number of
\* segments, unguarded in two cloners), the reference written to the
\* temporary speaker file and the synthesizer called
CloneBegin(s, r, o) ==
  LET path == TempSpeakerPath(r.cloner, Proc(r.kind), r.text)
      opt == CanonicalText(r.cloner, r.text)
      planned == [r EXCEPT !.chunks = <<opt>>, !.lang = LanguageArg(r.cloner, r.text),
                            !.temp = path, !.i = 0,
                            !.segments = Segments(r.cloner, r.text),
                            !.ref = PrepareReference(r.cloner, r.ref_in)]
  IN CASE o = "model_fails" ->
            /\ sess' = [sess EXCEPT ![s] = [r EXCEPT !.pc = "raised", !.fault = "model"]]
            /\ UNCHANGED files
       [] UnguardedRatio(r.cloner) /\ Len(Words(r.text)) = 0 ->
            /\ sess' = [sess EXCEPT ![s] = [r EXCEPT !.pc = "raised",
                                                     !.fault = "division"]]
            /\ UNCHANGED files
       [] o = "ok" ->
            /\ files' = WriteFile(files, path, s)
            /\ sess' = [sess EXCEPT ![s] =
                         [planned EXCEPT !.pc = "in_tts",
                                         !.calls = <<[SynthCall(planned) EXCEPT
                                                       !.text = WholeText(opt),
                                                       !.wav_present = TRUE,
                                                       !.wav_writer = s]>>]]
       [] OTHER ->
            /\ sess' = [sess EXCEPT ![s] = [planned EXCEPT !.pc = "raised",
                                                          !.fault = "write"]]
            /\ files' = IF o = "write_fails_partial"
                        THEN WriteFile(files, path, s) ELSE files

\* get_voice_cloner() (the first cloner class that can be imported becomes
\* the global voice_cloner; none importable raises ImportError), then
\* clone_voice on it, called synchronously on the event loop
SpeechClone(s, cl, o) ==
  /\ sess[s].kind = "single_ws" /\ sess[s].pc = "ss_ready"
  /\ CanRun(s)
  /\ IF voice_cloner = "None" THEN cl \in ServerCloners \cup {"None"}
                              ELSE cl = voice_cloner
  /\ voice_cloner' = cl
  /\ IF cl = "None"
     THEN /\ o = "ok"
          /\ sess' = [sess EXCEPT ![s].pc = "raised", ![s].fault = "import"]
          /\ UNCHANGED files
     ELSE CloneBegin(s, [sess[s] EXCEPT !.cloner = cl], o)
  /\ loop' = Hold(s)
  /\ UNCHANGED appVars
  /\ UNCHANGED <<active_connections, alive, endpoint, inbox, pings, pongs>>

\* a direct call of a single-shot cloner: clone_voice_multilingual of
\* FixedHinglishCloner and OptimizedHinglishCloner from the test functions of
\* the quality scripts, clone_voice of WebSocketFixedHinglishCloner from
\* test_websocket_integration, the module-level clone_voice of
\* voice_cloner_multilingual; ref is voice_features["audio_data"]
ScriptRun(s, cl, t, ref, o) ==
  /\ Fresh(s)
  /\ loop["script"] = 0
  /\ cl \in DirectCloners
  /\ CloneBegin(s, [NoSession EXCEPT !.kind = "script", !.cloner = cl, !.text = t,
                                     !.ref_in = ref], o)
  /\ loop' = [loop EXCEPT !["script"] = s]
  /\ UNCHANGED appVars
  /\ UNCHANGED <<active_connections, alive, endpoint, inbox, pings, pongs,
                 voice_cloner>>

\* the synthesizer call of a single-shot cloner returns SynthRaised (it
\* raised), SynthTypeError (the first call of MultilingualVoiceCloner, made with
\* the speed parameters, raised TypeError or AttributeError: the cloner calls
\* again with tts_params alone) or a waveform. The speaker file is removed
\* after a successful call; after a failed one only by the cloners that
\* remove it in a finally block. On success the audio is cleaned and written
\* to the output path and the handler announces speech_generated.
SingleTtsReturn(s, res, lib) ==
  /\ sess[s].kind \in {"single_ws", "script"}
  /\ sess[s].pc = "in_tts"
  /\ res = SynthTypeError => sess[s].cloner = "multilingual" /\ Len(sess[s].calls) = 1
  /\ LET r == sess[s]
         c == r.client
         out == <<"generated", r.kind, s>>
         clean == IF res \in {SynthRaised, SynthTypeError} THEN Cleaned(EmptyWave, FALSE)
                  ELSE Postprocess(r.cloner, res, lib, Len(r.chunks[1]))
     IN IF res = SynthTypeError
        THEN /\ sess' = [sess EXCEPT ![s].calls =
                          Append(SetResult(@, "type_error"), @[1])]
             /\ loop' = Hold(s)
             /\ UNCHANGED <<files, active_connections, endpoint>>
        ELSE IF res = SynthRaised \/ clean.failed
                \/ (clean.raised /\ AfterCleanupFailure # "absorbed")
        THEN /\ sess' = [sess EXCEPT ![s] =
                          [r EXCEPT !.calls = IF res = SynthRaised
                                              THEN SetResult(@, "failed")
                                              ELSE SetAudio(@, res),
                                    !.pc = "raised",
                                    !.fault = IF res = SynthRaised THEN "synth"
                                              ELSE "cleanup",
                                    !.failed_chunk = 0]]
             /\ files' = IF RemovesInFinally(r.cloner)
                         THEN RemoveFile(files, r.temp) ELSE files
             /\ loop' = Hold(s)
             /\ UNCHANGED <<active_connections, endpoint>>
        ELSE /\ files' = WriteFile(RemoveFile(files, r.temp), out, s)
             /\ loop' = Release(s)
             /\ LET got == [r EXCEPT !.calls = SetAudio(@, res),
                                     !.delivered = <<Chunk(0, r.chunks[1], 1, clean)>>,
                                     !.pc = "done", !.outcome = "complete"]
                IN IF r.kind = "single_ws"
                   THEN /\ sess' = [sess EXCEPT ![s] =
                                     Emit(got, Msg("speech_generated", 0, 0,
                                                   {"type", "message", "progress",
                                                    "audio_file", "voice_name", "text"},
                                                   c))]
                        /\ active_connections' = AfterSend(c)
                        /\ endpoint' = [endpoint EXCEPT ![c] = "receiving"]
                   ELSE /\ sess' = [sess EXCEPT ![s] = got]
                        /\ UNCHANGED <<active_connections, endpoint>>
  /\ UNCHANGED appVars
  /\ UNCHANGED <<alive, inbox, pings, pongs, voice_cloner>>

\* ------------------------------------------------------------------------
\* Specifications
\* ------------------------------------------------------------------------
\* the clients that connect while streaming requests are served
StreamClients == {"c1"}

\* texts of streaming requests and of direct generator runs
WsTexts == {<<>>, Txt_blank, Txt_three}

DirectTexts == {Txt_two, Txt_four}

\* texts of single-shot requests and of the script runs
SingleTexts == {<<>>, Txt_blank, Txt_one}

\* how the first step of a generator run ends: well, with a model that does
\* not load, or with a write of the speaker file that fails after creating it
StreamStartOutcomes == StartOutcomes \ {"write_fails"}

\* streaming: handle_realtime_speech_generation and direct consumers of
\* clone_voice_realtime
Next ==
  \/ \E c \in StreamClients : Connect(c)
  \/ \E c \in Clients : ClientDisconnect(c)
  \/ \E c \in Clients : EndpointDisconnect(c)
  \/ \E s \in Sessions, c \in Clients, v \in VoiceNames, t \in WsTexts :
       RealtimeRequest(s, c, v, t)
  \/ \E s \in Sessions : RealtimeLookup(s)
  \/ \E s \in Sessions, importOk \in BOOLEAN : RealtimeCreateCloner(s, importOk)
  \/ \E s \in Sessions, t \in DirectTexts : DirectStart(s, t, NormalWave)
  \/ \E s \in Sessions, o \in StreamStartOutcomes : GenStart(s, o)
  \/ \E s \in Sessions : GenLoop(s)
  \/ \E s \in Sessions, res \in {SynthRaised, NormalWave}, lib \in TrimLibraries :
       StreamTtsReturn(s, res, lib)
  \/ \E s \in Sessions : GenWake(s)
  \/ \E s \in Sessions : GenAclose(s)
  \/ \E s \in Sessions : HandleException(s)

Spec == Init /\ [][Next]_vars

\* single-shot: handle_speech_generation, the quality scripts, and pings,
\* with clients that stay connected
SingleNext ==
  \/ \E c \in Clients : Connect(c)
  \/ \E c \in Clients : ClientPing(c)
  \/ \E c \in Clients : HandlePing(c)
  \/ \E s \in Sessions, c \in Clients, v \in VoiceNames, t \in SingleTexts :
       SpeechRequest(s, c, v, t)
  \/ \E s \in Sessions : SpeechLookup(s)
  \/ \E s \in Sessions, cl \in ServerCloners \cup {"None"}, o \in StartOutcomes :
       SpeechClone(s, cl, o)
  \/ \E s \in Sessions, cl \in ScriptCloners, t \in SingleTexts \ {<<>>},
        o \in StartOutcomes : ScriptRun(s, cl, t, NormalWave, o)
  \/ \E s \in Sessions, res \in {SynthRaised, SynthTypeError, NormalWave},
        lib \in TrimLibraries : SingleTtsReturn(s, res, lib)
  \/ \E s \in Sessions : HandleException(s)

SpecSingle == Init /\ [][SingleNext]_vars

\* texts of direct single-shot calls: longer than ShortTextLimit, and short
CloneTexts == {Txt_question, Txt_dots, Txt_dotword, Txt_mixed, Txt_hindi, Txt_one,
               Txt_fifth, Txt_four_fifths, Txt_gap}

\* direct calls of the single-shot cloners, one after the other
CloneNext ==
  \/ \E s \in 1..MaxClones, cl \in DirectCloners, t \in CloneTexts :
       ScriptRun(s, cl, t, NormalWave, "ok")
  \/ \E s \in Sessions, res \in {SynthRaised, SynthTypeError, NormalWave},
        lib \in TrimLibraries : SingleTtsReturn(s, res, lib)
  \/ \E s \in Sessions : HandleException(s)

SpecClone == Init /\ [][CloneNext]_vars

\* texts of the generator runs whose plans are examined
PlanTexts == {Txt_two, Txt_bang, Txt_token, Txt_four}

\* direct consumers of clone_voice_realtime over texts of several sentences
PlanNext ==
  \/ \E s \in Sessions, t \in PlanTexts : DirectStart(s, t, NormalWave)
  \/ \E s \in Sessions : GenStart(s, "ok")
  \/ \E s \in Sessions : GenLoop(s)
  \/ \E s \in Sessions, res \in {SynthRaised, NormalWave}, lib \in TrimLibraries :
       StreamTtsReturn(s, res, lib)
  \/ \E s \in Sessions : GenWake(s)
  \/ \E s \in Sessions : GenAclose(s)
  \/ \E s \in Sessions : HandleException(s)

SpecPlan == Init /\ [][PlanNext]_vars

\* what the synthesizer call can come back with
SynthResults == {SynthRaised, SynthTypeError, NormalWave, ClickWave, ShortWave,
                 SilentWave, NanWave, InfWave, EmptyWave}

\* the audio_data of the voice features a caller passes
References == {NormalWave, SilentWave}

\* one generator run or one direct single-shot call, over the waveforms the
\* synthesizer can return and the references a caller can pass
AudioNext ==
  \/ \E s \in 1..MaxClones, ref \in References : DirectStart(s, Txt_two, ref)
  \/ \E s \in Sessions : GenStart(s, "ok")
  \/ \E s \in Sessions : GenLoop(s)
  \/ \E s \in Sessions, res \in SynthResults \ {SynthTypeError},
        lib \in TrimLibraries : StreamTtsReturn(s, res, lib)
  \/ \E s \in Sessions : GenWake(s)
  \/ \E s \in 1..MaxClones, cl \in DirectCloners, ref \in References :
       ScriptRun(s, cl, Txt_one, ref, "ok")
  \/ \E s \in Sessions, res \in SynthResults, lib \in TrimLibraries :
       SingleTtsReturn(s, res, lib)
  \/ \E s \in Sessions : HandleException(s)

SpecAudio == Init /\ [][AudioNext]_vars

\* ------------------------------------------------------------------------
\* The voice store: upload_voice, the voice endpoints and VoiceDatabase
\* ------------------------------------------------------------------------
\* ConnectionManager.broadcast run to its end: the clients whose send failed
\* are unregistered
AfterBroadcast == {c \in active_connections : alive[c]}

\* POST /upload_voice
upload_voice(name, rec, d, cl, o) ==
  /\ Len(requests) < MaxRequests
  /\ LET n == Len(requests) + 1
         temp_path == <<"temp", n>>
         processed_path == <<name, n>>
         validation == validate_audio_quality(cl, rec)
         Reply(status, v, path) ==
           requests' = Append(requests, Response("upload", name, rec.id, status, v, path))
     IN IF name = "" \/ rec.format \notin AudioFormats
        THEN /\ o = "ok" /\ cl = voice_cloner
             /\ Reply(400, NoValidation, <<>>)
             /\ UNCHANGED <<voice_profiles, voices_dir, voice_cloner,
                            active_connections>>
        ELSE /\ IF voice_cloner = "None" THEN cl \in ServerCloners \cup {"None"}
                                         ELSE cl = voice_cloner
             /\ voice_cloner' = cl
             /\ IF cl = "None"
                THEN /\ o = "ok"
                     /\ Reply(500, NoValidation, <<>>)
                     /\ voices_dir' = voices_dir \cup {temp_path}
                     /\ UNCHANGED <<voice_profiles, active_connections>>
                ELSE IF ~validation.is_valid
                THEN /\ o = "ok"
                     /\ Reply(400, validation, <<>>)
                     /\ UNCHANGED <<voice_profiles, voices_dir, active_connections>>
                ELSE IF o = "preprocess_raises"
                THEN /\ Reply(500, validation, <<>>)
                     /\ voices_dir' = voices_dir \cup {temp_path}
                     /\ UNCHANGED <<voice_profiles, active_connections>>
                ELSE IF o = "extract_raises"
                THEN /\ Reply(500, validation, <<>>)
                     /\ voices_dir' = voices_dir \cup {temp_path, processed_path}
                     /\ UNCHANGED <<voice_profiles, active_connections>>
                ELSE IF o = "save_fails"
                THEN /\ Reply(500, validation, <<>>)
                     /\ voices_dir' = voices_dir \cup {processed_path}
                     /\ UNCHANGED <<voice_profiles, active_connections>>
                ELSE /\ Reply(200, validation, processed_path)
                     /\ voices_dir' = voices_dir \cup {processed_path}
                     /\ voice_profiles' =
                          save_voice_profile(voice_profiles, name,
                                             extract_voice_features(cl, rec),
                                             processed_path, Metadata(d, validation))
                     /\ active_connections' = AfterBroadcast
  /\ UNCHANGED <<sess, alive, endpoint, inbox, pings, pongs, files, loop>>
  /\ UNCHANGED <<trimVars, mgrVars, chatVars>>

\* GET /voice/{voice_name}: HTTPException(404) is raised inside the try block
\* and answered by its except clause
get_voice_profile(name) ==
  /\ Len(requests) < MaxRequests
  /\ requests' = Append(requests,
       Response("get", name, "-", IF voice_profiles[name].exists THEN 200 ELSE 500,
                NoValidation, voice_profiles[name].audio_path))
  /\ UNCHANGED <<wsVars, voice_profiles, voices_dir>>
  /\ UNCHANGED <<trimVars, mgrVars, chatVars>>

\* a caller of VoiceDatabase.update_voice_metadata
UpdateMetadata(name, d) ==
  /\ Len(requests) < MaxRequests
  /\ voice_profiles' =
       update_voice_metadata(voice_profiles, name,
                             Metadata(d, voice_profiles[name].metadata.validation))
  /\ requests' = Append(requests,
       Response("update", name, "-", IF voice_profiles[name].exists THEN 200 ELSE 404,
                NoValidation, <<>>))
  /\ UNCHANGED <<wsVars, voices_dir>>
  /\ UNCHANGED <<trimVars, mgrVars, chatVars>>

\* DELETE /voice/{voice_name}
delete_voice(name) ==
  /\ Len(requests) < MaxRequests
  /\ voice_profiles' = delete_voice_profile(voice_profiles, name)
  /\ active_connections' =
       IF voice_profiles[name].exists THEN AfterBroadcast ELSE active_connections
  /\ requests' = Append(requests,
       Response("delete", name, "-", IF voice_profiles[name].exists THEN 200 ELSE 500,
                NoValidation, <<>>))
  /\ UNCHANGED <<sess, alive, endpoint, inbox, pings, pongs, files, voice_cloner,
                 loop, voices_dir>>
  /\ UNCHANGED <<trimVars, mgrVars, chatVars>>

StoreNext ==
  \/ \E name \in UploadNames, rec \in UploadedRecordings, d \in Descriptions,
        cl \in ServerCloners \cup {"None"}, o \in UploadOutcomes :
       upload_voice(name, rec, d, cl, o)
  \/ \E name \in VoiceNames : get_voice_profile(name)
  \/ \E name \in VoiceNames, d \in Descriptions : UpdateMetadata(name, d)
  \/ \E name \in VoiceNames : delete_voice(name)

SpecStore == Init /\ [][StoreNext]_vars

\* ------------------------------------------------------------------------
\* The energy-based trim of MultilingualVoiceCloner._clean_audio_artifacts
\* ------------------------------------------------------------------------
\* the analysis windows start at 0, hop, 2 hop, ... below len - window_size
FrameCount(len) ==
  IF len <= window_size THEN 0 ELSE ((len - window_size - 1) \div hop) + 1

\* the samples of analysis window f: audio[f * hop : f * hop + window_size]
FrameStart(f) == f * hop

FrameEnd(f, len) == IF f * hop + window_size < len THEN f * hop + window_size ELSE len

\* start_idx = valid_frames[0] * window_size // 2 and
\* end_idx = min((valid_frames[-1] + 2) * window_size // 2, len(audio)):
\* the product is formed first, then halved
energy_trim_span(len, first, last) ==
  [len |-> len, first |-> first, last |-> last,
   start_idx |-> (first * window_size) \div 2,
   end_idx |-> IF ((last + 2) * window_size) \div 2 < len
               THEN ((last + 2) * window_size) \div 2 ELSE len]

\* the lengths of the waveforms trimmed: 40 ms, 100 ms, 200 ms
TrimLengths == {882, 2205, 4405}

\* _clean_audio_artifacts on a waveform whose first and last window above the
\* threshold are first and last
clean_audio_artifacts_trim(len, first, last) ==
  /\ first <= last /\ last < FrameCount(len)
  /\ energy_trim' = energy_trim_span(len, first, last)
  /\ UNCHANGED <<wsVars, storeVars, mgrVars, chatVars>>

MaxFrames == 19

TrimNext ==
  \E len \in TrimLengths, first \in 0..MaxFrames - 1, last \in 0..MaxFrames - 1 :
    clean_audio_artifacts_trim(len, first, last)

SpecTrim == Init /\ [][TrimNext]_vars

\* ------------------------------------------------------------------------
\* ConnectionManager with the WebSocket objects told apart
\* ------------------------------------------------------------------------
Registered == {c \in Clients : registry[c] # 0}

\* websocket_endpoint: manager.connect accepts the socket and stores it under
\* its client_id, replacing the object stored there
ws_connect(k, c) ==
  /\ websockets[k].endpoint = "none"
  /\ \A j \in Connections : j < k => websockets[j].endpoint # "none"
  /\ websockets' = [websockets EXCEPT ![k] =
                      [client_id |-> c, open |-> TRUE, endpoint |-> "receiving"]]
  /\ registry' = [registry EXCEPT ![c] = k]
  /\ UNCHANGED <<mailbox, broadcast_run>>
  /\ UNCHANGED <<wsVars, storeVars, trimVars, chatVars>>

\* the client closes its socket
ws_close(k) ==
  /\ websockets[k].open
  /\ websockets' = [websockets EXCEPT ![k].open = FALSE]
  /\ UNCHANGED <<registry, mailbox, broadcast_run>>
  /\ UNCHANGED <<wsVars, storeVars, trimVars, chatVars>>

\* ConnectionManager.disconnect: the entry of the client_id is deleted,
\* whichever object it holds
disconnect(reg, c) == [reg EXCEPT ![c] = 0]

\* websocket_endpoint: receive_text raises on the closed socket and the
\* except clause calls manager.disconnect(client_id)
ws_endpoint_exit(k) ==
  /\ websockets[k].endpoint = "receiving" /\ ~websockets[k].open
  /\ websockets' = [websockets EXCEPT ![k].endpoint = "closed"]
  /\ registry' = disconnect(registry, websockets[k].client_id)
  /\ UNCHANGED <<mailbox, broadcast_run>>
  /\ UNCHANGED <<wsVars, storeVars, trimVars, chatVars>>

\* ConnectionManager.send_personal_message, without a suspension inside
\* send_text: a send that raises unregisters the client_id
send_personal_message(c) ==
  /\ registry[c] # 0
  /\ LET k == registry[c]
     IN IF websockets[k].open
        THEN /\ mailbox[k] < MaxDeliveries
             /\ mailbox' = [mailbox EXCEPT ![k] = @ + 1]
             /\ UNCHANGED registry
        ELSE /\ registry' = disconnect(registry, c)
             /\ UNCHANGED mailbox
  /\ UNCHANGED <<websockets, broadcast_run>>
  /\ UNCHANGED <<wsVars, storeVars, trimVars, chatVars>>

RECURSIVE DisconnectAll(_, _)
DisconnectAll(reg, S) ==
  IF S = {} THEN reg
  ELSE LET c == CHOOSE x \in S : TRUE
       IN DisconnectAll(disconnect(reg, c), S \ {c})

\* one turn of the loop "for client_id, websocket in
\* self.active_connections.items()": the iterator raises RuntimeError when the
\* dict changed size since the loop began; at the end of the dict the
\* collected clients are disconnected; else the message is sent to the next
\* client, whose failure is collected
BroadcastTurn(b) ==
  IF Cardinality(Registered) # b.size
  THEN /\ broadcast_run' = [b EXCEPT !.pc = "raised"]
       /\ UNCHANGED <<registry, mailbox>>
  ELSE IF b.todo \cap Registered = {}
  THEN /\ broadcast_run' = [b EXCEPT !.pc = "done"]
       /\ registry' = DisconnectAll(registry, b.disconnected_clients)
       /\ UNCHANGED mailbox
  ELSE \E c \in b.todo \cap Registered :
         LET k == registry[c]
         IN /\ UNCHANGED registry
            /\ IF websockets[k].open
               THEN /\ mailbox[k] < MaxDeliveries
                    /\ mailbox' = [mailbox EXCEPT ![k] = @ + 1]
                    /\ broadcast_run' = [b EXCEPT !.pc = "sending", !.todo = @ \ {c},
                                                   !.reached = @ \cup {k}]
               ELSE /\ UNCHANGED mailbox
                    /\ broadcast_run' =
                         [b EXCEPT !.pc = "sending", !.todo = @ \ {c},
                                   !.disconnected_clients = @ \cup {c}]

\* ConnectionManager.broadcast is called: it runs up to its first send_text
broadcast_begin ==
  /\ broadcast_run.pc = "idle"
  /\ BroadcastTurn([NoBroadcast EXCEPT !.todo = Registered,
                                       !.size = Cardinality(Registered)])
  /\ UNCHANGED websockets
  /\ UNCHANGED <<wsVars, storeVars, trimVars, chatVars>>

\* send_text returns or raises and the loop goes on
broadcast_resume ==
  /\ broadcast_run.pc = "sending"
  /\ BroadcastTurn(broadcast_run)
  /\ UNCHANGED websockets
  /\ UNCHANGED <<wsVars, storeVars, trimVars, chatVars>>

ManagerNext ==
  \/ \E k \in Connections, c \in Clients : ws_connect(k, c)
  \/ \E k \in Connections : ws_close(k)
  \/ \E k \in Connections : ws_endpoint_exit(k)
  \/ \E c \in Clients : send_personal_message(c)
  \/ broadcast_begin
  \/ broadcast_resume

SpecManager == Init /\ [][ManagerNext]_vars

\* ------------------------------------------------------------------------
\* handle_chat_message and GET /download
\* ------------------------------------------------------------------------
\* the chat messages handled in one run
MaxChats == 1

ConversationIds == {"k1", ""}

\* where a chat message can fail: the inserts of VoiceDatabase.add_message,
\* the chatbot (answered with the fallback text), the Hindi conversion or the
\* cloner (caught: no audio), a cloner that returns without an output file
ChatOutcomes == {"ok", "user_insert_fails", "assistant_insert_fails", "api_fails",
                 "tts_raises", "no_file"}

\* VoiceDatabase.add_message: one row is inserted per call
add_message(table, n, conversation_id, role, audio_path) ==
  Append(table, [chat |-> n, conversation_id |-> conversation_id, role |-> role,
                 audio_path |-> audio_path])

\* the directory GET /download/{filename} serves from
OtherDir == "temp"

DownloadDir == "generated"

\* download_file: os.path.exists(os.path.join("generated", filename))
download_file(filename) == Exists(<<DownloadDir>> \o filename)

\* handle_chat_message: the user message is stored, the chatbot answers, the
\* answer is stored, and with a voice selected the answer is synthesized into
\* generated/chatbot_<voice>_<id>.wav; when the file exists audio_file names
\* it and add_message is called once more, with the audio path
handle_chat_message(c, conv, voice, cl, o) ==
  /\ Len(chat_log) < MaxChats
  /\ endpoint[c] = "receiving" /\ alive[c]
  /\ loop["server"] = 0
  /\ active_connections' = AfterSend(c)
  /\ LET n == Len(chat_log) + 1
         filename == <<"chatbot", voice, n>>
         Log(status, audio_file) ==
           chat_log' = Append(chat_log,
             [conversation_id |-> conv, voice_name |-> voice, outcome |-> o,
              status |-> status, audio_file |-> audio_file, sent |-> Delivered(c)])
         m1 == IF o = "user_insert_fails" THEN messages
               ELSE add_message(messages, n, conv, "user", <<>>)
         m2 == IF o = "assistant_insert_fails" THEN m1
               ELSE add_message(m1, n, conv, "assistant", <<>>)
         synthesize == voice # "" /\ voice \in VoiceNames /\ voice_profiles[voice].exists
                       /\ o # "tts_raises"
     IN IF conv = ""
        THEN /\ o = "ok" /\ cl = voice_cloner
             /\ Log("rejected", <<>>)
             /\ UNCHANGED <<messages, files, voice_cloner>>
        ELSE IF ~synthesize
        THEN /\ cl = voice_cloner
             /\ o # "no_file"
             /\ o = "tts_raises" => voice # ""
             /\ Log("handled", <<>>)
             /\ messages' = m2
             /\ UNCHANGED <<files, voice_cloner>>
        ELSE /\ IF voice_cloner = "None" THEN cl \in ServerCloners \cup {"None"}
                                         ELSE cl = voice_cloner
             /\ voice_cloner' = cl
             /\ IF cl = "None" \/ o = "no_file"
                THEN /\ Log("handled", <<>>)
                     /\ messages' = m2
                     /\ UNCHANGED files
                ELSE /\ Log("handled", filename)
                     /\ files' = WriteFile(files, <<"generated">> \o filename, 0)
                     /\ messages' =
                          IF o = "assistant_insert_fails" THEN m2
                          ELSE add_message(m2, n, conv, "assistant",
                                           <<"generated">> \o filename)
  /\ UNCHANGED <<sess, alive, endpoint, inbox, pings, pongs, loop>>
  /\ UNCHANGED <<storeVars, trimVars, mgrVars, conversation_history, added>>

\* the handlers that announce audio files. The generator started by
\* handle_realtime_speech_generation is given the two-parameter
\* progress_callback, so it runs GenStart and GenLoop up to its first
\* callback and never reaches a synthesizer return or a wake-up.
AnnounceNext ==
  \/ \E c \in StreamClients : Connect(c)
  \/ \E c \in StreamClients : ClientDisconnect(c)
  \/ \E s \in 1..MaxClones, c \in StreamClients, v \in VoiceNames :
       SpeechRequest(s, c, v, Txt_one)
  \/ \E s \in Sessions : SpeechLookup(s)
  \/ \E s \in Sessions, cl \in ServerCloners \cup {"None"} : SpeechClone(s, cl, "ok")
  \/ \E s \in Sessions, res \in {SynthRaised, NormalWave}, lib \in TrimLibraries :
       SingleTtsReturn(s, res, lib)
  \/ \E s \in 1..MaxClones, c \in StreamClients, v \in VoiceNames :
       RealtimeRequest(s, c, v, Txt_three)
  \/ \E s \in Sessions : RealtimeLookup(s)
  \/ \E s \in Sessions : RealtimeCreateCloner(s, TRUE)
  \/ \E s \in Sessions : GenStart(s, "ok")
  \/ \E s \in Sessions : GenLoop(s)
  \/ \E s \in Sessions : HandleException(s)
  \/ \E c \in StreamClients, conv \in ConversationIds, voice \in VoiceNames \cup {""},
        cl \in ServerCloners \cup {"None"}, o \in ChatOutcomes :
       handle_chat_message(c, conv, voice, cl, o)

SpecAnnounce == Init /\ [][AnnounceNext]_vars

\* ------------------------------------------------------------------------
\* The conversation history of the chatbots
\* ------------------------------------------------------------------------
\* the calls of add_to_history on one chatbot
MaxAdds == 42

\* h[:n]
KeepFirst(h, n) == SubSeq(h, 1, n)

\* h[-n:]
KeepLast(h, n) == SubSeq(h, Len(h) - n + 1, Len(h))

\* HinglishChatbot.add_to_history and HinglishOpenAIChatbot.add_to_history
add_to_history(h, role, content) ==
  LET appended == Append(h, [role |-> role, content |-> content])
  IN IF Len(appended) > max_history_length * 2
     THEN KeepLast(appended, max_history_length)
     ELSE appended

\* a call of add_to_history, as get_response makes them: the user's message,
\* then the answer; the content is numbered by the call
AddToHistory(b) ==
  /\ added[b] < MaxAdds
  /\ added' = [added EXCEPT ![b] = @ + 1]
  /\ conversation_history' =
       [conversation_history EXCEPT ![b] =
          add_to_history(@, IF added[b] % 2 = 0 THEN "user" ELSE "assistant",
                         added[b] + 1)]
  /\ UNCHANGED <<wsVars, storeVars, trimVars, mgrVars, messages, chat_log>>

HistoryNext == \E b \in Chatbots : AddToHistory(b)

SpecHistory == Init /\ [][HistoryNext]_vars

\* ------------------------------------------------------------------------
\* Properties
\* ------------------------------------------------------------------------
Streaming(s) == sess[s].kind \in {"realtime_ws", "realtime_direct"}

\* the number of sentences of a request text
Planned(t) == _split_text_into_chunks(optimize_text_for_voice_cloning(t))

TerminalEvents(ev) == {k \in 1..Len(ev) : ev[k].type \in TerminalTypes}

C2_AllSentencesDelivered ==
  \A s \in Sessions :
    LET r == sess[s]
        N == Len(Planned(r.text))
    IN (/\ r.kind = "realtime_ws" /\ r.pc = "done"
        /\ r.profile = "found"
        /\ r.fault \notin {"import", "model", "write", "synth"}
        /\ r.cancel_at = -1)
       => /\ r.outcome = "complete"
          /\ Len(r.delivered) = N
          /\ Cardinality({k \in 1..Len(r.events) : r.events[k].type = "audio_chunk"}) = N
          /\ r.events[Len(r.events)].type = "realtime_complete"
          /\ r.events[Len(r.events)].total_chunks = N

\* C3: when the synthesizer call for a chunk fails, exactly the chunks before
\* it have been delivered, no synthesizer call is made for a later chunk, and
\* the session ends in error without a complete event
C3_SynthFailureStopsStream ==
  \A s \in Sessions :
    LET r == sess[s]
    IN (Streaming(s) /\ r.fault = "synth")
       => /\ Len(r.delivered) = r.failed_chunk
          /\ Len(r.calls) = r.failed_chunk + 1
          /\ r.calls[Len(r.calls)].i = r.failed_chunk
          /\ r.calls[Len(r.calls)].result = "failed"
          /\ r.pc \in {"raised", "done"}
          /\ r.pc = "done" => r.outcome = "error"
          /\ \A k \in 1..Len(r.events) : r.events[k].type # "realtime_complete"

\* the second synthesizer call of a generator run failed: one chunk delivered,
\* the run over
C3_Witness ==
  \E s \in Sessions :
    /\ Streaming(s)
    /\ sess[s].fault = "synth"
    /\ sess[s].failed_chunk = 1
    /\ Len(sess[s].chunks) > 2
    /\ Len(sess[s].delivered) = 1
    /\ sess[s].pc = "done"

\* C4: when a chunk of a streaming request fails, the error event sent to the
\* client carries chunk_index, the number of chunks delivered before it
C4_ErrorCarriesChunkIndex ==
  \A s \in Sessions :
    LET r == sess[s]
    IN (r.kind = "realtime_ws" /\ r.failed_chunk # -1 /\ r.pc = "done")
       => /\ r.events[Len(r.events)].type = "error"
          /\ "chunk_index" \in r.events[Len(r.events)].keys
          /\ r.failed_chunk = Len(r.delivered)

\* C5: when the client disconnects while its streaming request is served, no
\* synthesizer call is made for a chunk after those already delivered and the
\* request ends cancelled
C5_CancelledAtBoundary ==
  \A s \in Sessions :
    LET r == sess[s]
    IN (r.kind = "realtime_ws" /\ r.cancel_at # -1)
       => /\ Len(r.calls) <= r.cancel_at + 1
          /\ r.pc = "done" =>
               /\ r.outcome = "cancelled"
               /\ r.events[Len(r.events)].type = "cancelled"

\* C6: once a session has ended, on any exit path and for every cloner, the
\* temporary speaker file it wrote does not exist
C6_TempFileRemoved ==
  \A s \in Sessions :
    (sess[s].pc \in {"done", "closed"} /\ sess[s].temp # <<>>)
      => ~(Exists(sess[s].temp) /\ Writer(sess[s].temp) = s)

\* C7: the temporary speaker file a streaming session hands to the
\* synthesizer exists and holds what that session wrote: no other session has
\* overwritten or removed it
C7_ExclusiveTempFile ==
  \A s \in Sessions :
    Streaming(s) =>
      \A k \in 1..Len(sess[s].calls) :
        /\ sess[s].calls[k].wav_present
        /\ sess[s].calls[k].wav_writer = s

\* C8: every synthesizer call, by every cloner, passes split_sentences=False
C8_NeverSplitSentences ==
  \A s \in Sessions :
    \A k \in 1..Len(sess[s].calls) :
      sess[s].calls[k].split_sentences = "False"

\* C9: an accepted streaming request is sent at most one terminal event,
\* exactly one once it is over and nothing after it; a request naming a voice
\* without a profile gets exactly one error
C9_OneTerminalEvent ==
  \A s \in Sessions :
    LET r == sess[s]
        T == TerminalEvents(r.events)
    IN (r.kind = "realtime_ws" /\ r.outcome # "rejected")
       => /\ Cardinality(T) <= 1
          /\ \A k \in T : k = Len(r.events)
          /\ r.pc = "done" => Cardinality(T) = 1
          /\ (r.pc = "done" /\ r.profile = "None") => r.calls = <<>>

\* C10: while a synthesizer call of a speech request is in flight, a ping
\* another connected client has sent can be received and answered
C10_PingAnsweredDuringSynthesis ==
  \A s \in Sessions, c \in Clients :
    (/\ sess[s].kind = "single_ws" /\ sess[s].pc = "in_tts"
     /\ c # sess[s].client
     /\ endpoint[c] = "receiving" /\ inbox[c] > 0)
    => ENABLED HandlePing(c)

\* ------------------------------------------------------------------------
\* Single-shot synthesis
\* ------------------------------------------------------------------------
SingleShot(s) == sess[s].kind \in {"single_ws", "script"}

CleanupResults(cloner, w, textLen) ==
  {Postprocess(cloner, w, lib, textLen) : lib \in TrimLibraries}

Canonicalized(s) ==
  /\ SingleShot(s)
  /\ sess[s].cloner \in {"multilingual", "websocket_fixed"}
  /\ sess[s].calls # <<>>

\* C13: canonicalization is idempotent: canonicalizing the text a cloner
\* handed to the synthesizer yields that text again
C13_CanonicalizationIdempotent ==
  \A s \in Sessions :
    Canonicalized(s) =>
      CanonicalText(sess[s].cloner, sess[s].calls[1].text) = sess[s].calls[1].text

\* C14: for an input longer than 20 characters the text handed to the
\* synthesizer contains none of ! danda ? , ; : (the danda is written "D",
\* the clause marks ",") and does not end in a period
C14_NoSplittingPunctuation ==
  \A s \in Sessions :
    Canonicalized(s) /\ Len(sess[s].text) > ShortTextLimit =>
      LET t == sess[s].calls[1].text
      IN /\ \A k \in 1..Len(t) : t[k] \notin SentenceSplitters \cup ClauseMarks
         /\ t # <<>> => t[Len(t)] # "."

\* ------------------------------------------------------------------------
\* The streaming plan and the language of its chunks
\* ------------------------------------------------------------------------
\* the generator has computed its plan
PlanMade(s) == Streaming(s) /\ sess[s].temp # <<>>

\* the non-empty sentences of a text, cut at its sentence-ending punctuation
Sentences(t) == DropEmpty(StripAll(SplitOn(t, SentenceEnders, <<>>)))

\* C15: the streaming plan has exactly one chunk per non-empty sentence of
\* the input as it is before punctuation stripping, and no chunk is empty
C15_OneChunkPerSentence ==
  \A s \in Sessions :
    PlanMade(s) =>
      /\ Len(sess[s].chunks) = Len(Sentences(sess[s].text))
      /\ \A k \in 1..Len(sess[s].chunks) : sess[s].chunks[k] # <<>>

\* C16: the language passed to the synthesizer for a chunk is computed from
\* the chunk's own tokens: "hi" when more than 0.3 of them are Hindi, else "en"
C16_LanguagePerChunk ==
  \A s \in Sessions :
    Streaming(s) =>
      \A k \in 1..Len(sess[s].calls) :
        sess[s].calls[k].language = PrimaryLanguage(sess[s].calls[k].text)

\* the tag the segmenter is to give a token
TokenTag(w) ==
  IF Contains(w, DevanagariBlock) THEN "hi"
  ELSE IF Contains(w, LatinLetters) THEN "en"
  ELSE "hi"

\* C17: the segmenter returns one pair per whitespace-separated token, in
\* order, tagged "hi" for a token with a Devanagari code point, else "en"
\* for one with a Latin letter, else "hi"; no other tag occurs
C17_SegmenterTags ==
  \A s \in Sessions :
    sess[s].temp # <<>> /\ sess[s].cloner # "simple" =>
      LET seg == sess[s].segments
          words == Words(sess[s].text)
      IN /\ Len(seg) = Len(words)
         /\ \A k \in 1..Len(seg) :
              /\ seg[k][1] = words[k]
              /\ seg[k][2] \in {"hi", "en"}
              /\ seg[k][2] = TokenTag(words[k])

\* ------------------------------------------------------------------------
\* Numerical behaviour
\* ------------------------------------------------------------------------
\* C18: computing hindi_ratio and the primary language has no failure mode:
\* no single-shot or streaming operation ends on the division by the number
\* of segments, a text without tokens included
C18_RatioNeverFails ==
  \A s \in Sessions : sess[s].fault # "division"

\* C19: the post-synthesis cleanup of a single-shot result never yields a
\* non-finite sample nor a sample of absolute value above 0.95, whatever
\* waveform the synthesizer returned
C19_CleanupBounded ==
  \A s \in Sessions :
    /\ SingleShot(s)
    /\ sess[s].cloner = "multilingual"
    /\ sess[s].outcome = "complete"
    => /\ sess[s].delivered[1].audio.kind = "finite"
       /\ sess[s].delivered[1].audio.peak <= 950

\* C20: preparing a silent reference never divides by zero: the reference
\* written to the speaker file for an all-zero waveform is that waveform
C20_SilentReferenceKept ==
  \A s \in Sessions :
    sess[s].temp # <<>> /\ sess[s].ref_in = SilentWave =>
      sess[s].ref = SilentWave

\* the issues a recording can be rejected for
ReferenceFlaws == {"too_short", "too_long", "level_low", "silence"}

Flaws(validation) ==
  {validation.issues[k] : k \in 1..Len(validation.issues)} \cap ReferenceFlaws

\* C21: a profile that exists before and after a step keeps its
\* voice_features and its audio_path; only its metadata may change
C21_ProfileImmutable ==
  [][\A n \in VoiceNames :
       voice_profiles[n].exists /\ voice_profiles'[n].exists =>
         /\ voice_profiles'[n].voice_features = voice_profiles[n].voice_features
         /\ voice_profiles'[n].audio_path = voice_profiles[n].audio_path]_vars

\* C22: an upload whose validation lists a too short, too long, too quiet or
\* mostly silent recording is answered 400 and saves nothing, and no stored
\* profile comes from such a recording, whichever cloner validated it
C22_OnlyValidatedStored ==
  /\ \A k \in 1..Len(requests) :
       requests[k].op = "upload" /\ Flaws(requests[k].validation) # {} =>
         requests[k].status = 400 /\ requests[k].path = <<>>
  /\ \A n \in VoiceNames :
       voice_profiles[n].exists => Flaws(voice_profiles[n].metadata.validation) = {}

\* C23: for a text longer than 20 characters the branch for mixed content is
\* taken exactly when hindi_ratio is strictly between 0.2 and 0.8 (compared
\* on the cross-multiplied integers), in the multilingual and the websocket
\* cloner
C23_MixedBranchBounds ==
  \A s \in Sessions :
    Canonicalized(s) /\ Len(sess[s].text) > ShortTextLimit =>
      LET t1 == CollapseSpaces(Strip(sess[s].text))
          n == Len(Words(t1))
          hi == ml_HindiCount(t1)
      IN MixedBranch(sess[s].cloner, sess[s].text) <=> (5 * hi > n /\ 5 * hi < 4 * n)

\* C24: the text handed to the synthesizer, for a short and for a long input,
\* neither starts nor ends with white space and holds no two white space
\* characters in a row
C24_WhitespaceCanonical ==
  \A s \in Sessions :
    Canonicalized(s) /\ sess[s].cloner = "multilingual" =>
      LET t == sess[s].calls[1].text
      IN /\ t # <<>> => t[1] # " " /\ t[Len(t)] # " "
         /\ \A k \in 1..Len(t) - 1 : ~(t[k] = " " /\ t[k + 1] = " ")

\* C25: the span kept by the energy-based trim holds every window above the
\* threshold in full, from one window before the first such window to one
\* window after the last, clamped to the waveform
C25_TrimKeepsPaddedSpan ==
  energy_trim.len > 0 =>
    LET first_start == FrameStart(energy_trim.first)
        last_end == FrameEnd(energy_trim.last, energy_trim.len)
    IN /\ energy_trim.start_idx <= first_start
       /\ energy_trim.end_idx >= last_end
       /\ energy_trim.start_idx =
            (IF first_start > window_size THEN first_start - window_size ELSE 0)
       /\ energy_trim.end_idx =
            (IF last_end + window_size < energy_trim.len
             THEN last_end + window_size ELSE energy_trim.len)

\* C26: a send that raises stays inside the manager: no broadcast ends with
\* an exception, and a broadcast that ended has reached every client that is
\* still registered with an open socket and has unregistered the clients
\* whose send failed
C26_SendFailuresIsolated ==
  /\ broadcast_run.pc # "raised"
  /\ broadcast_run.pc = "done" =>
       \A c \in broadcast_run.disconnected_clients :
         registry[c] = 0 \/ registry[c] \in broadcast_run.reached

\* C28: the newest connection of a client_id, while its socket is open and
\* its endpoint is receiving, is the one registered under that client_id,
\* whatever older connections of the same client_id did
C28_LiveClientStaysRegistered ==
  \A k \in Connections :
    /\ websockets[k].open /\ websockets[k].endpoint = "receiving"
    /\ \A j \in Connections : j > k => websockets[j].client_id # websockets[k].client_id
    => registry[websockets[k].client_id] = k

AnnouncedFiles(s) ==
  LET r == sess[s]
  IN {IF r.events[k].type = "speech_generated" THEN <<r.kind, s>>
      ELSE <<"realtime", r.voice, r.client, r.events[k].chunk_id>> :
        k \in {j \in 1..Len(r.events) : "audio_file" \in r.events[j].keys}}

C30_OneMessagePerRole ==
  \A n \in 1..Len(chat_log) :
    /\ chat_log[n].status = "handled"
    /\ chat_log[n].outcome \notin {"user_insert_fails", "assistant_insert_fails"}
    => /\ Cardinality({k \in 1..Len(messages) :
                         messages[k].chat = n /\ messages[k].role = "user"}) = 1
       /\ Cardinality({k \in 1..Len(messages) :
                         messages[k].chat = n /\ messages[k].role = "assistant"}) = 1

====
